---- MODULE Spec2Model ----
(***************************************************************************)
(* The asynchronous ingestion pipeline of the RSS reader: the durable job  *)
(* functions add-feed, parse-feed and parse-article, the relational store  *)
(* they share, and the step executor that runs them.                       *)
(*                                                                         *)
(* A job function is re-invoked from its top on every attempt; a step that *)
(* has a recorded result replays it.  The place a function is at is        *)
(* therefore a function of its recorded step results (the "memo"), and the *)
(* control flow of each function is written here as that function          *)
(* (AddFeedAt, ParseFeedAt).  Every step is one action.                    *)
(***************************************************************************)
EXTENDS Integers, Sequences, FiniteSets, Bags, TLC

VARIABLES
    feeds,          \* table feeds: sequence of rows, the row's id is its index
    subscriptions,  \* table subscriptions: sequence of rows
    pending_feeds,  \* table pending_feeds: function id -> row, for the rows that exist
    nextPendingId,  \* AUTOINCREMENT counter of pending_feeds
    articles,       \* table articles: sequence of rows, the row's id is its index
    events,         \* bag of events sent and not yet picked up by a function run
    runs,           \* job instances: sequence of run records
    notifications,  \* bag of calls getSSEManager().notifyUser(user, event, payload)
    requests,       \* number of triggers that have come from outside the functions
    connections,    \* the hub's registry: the entries of the Map user id -> connection
    streams,        \* the event streams opened by GET /api/notifications, by stream id
    hubCall         \* the last call of notifyUser or broadcast, and what it did

vars == <<feeds, subscriptions, pending_feeds, nextPendingId, articles, events, runs,
          notifications, requests, connections, streams, hubCall>>

hub == <<connections, streams, hubCall>>

store == <<feeds, subscriptions, pending_feeds, nextPendingId, articles>>

----------------------------------------------------------------------------
(* Bounds of the model *)

MaxRuns == 2        \* job instances started in one behaviour
MaxRequests == 2    \* triggers from outside followed in one behaviour

(* Program constants *)

AddFeedRetries == 3
AddFeedConcurrency == 1
RetriesRaised == 3 + 1
ParseFeedRetries == 3
ParseFeedConcurrency == 2
ParseArticleRetries == 3
ScheduleFeedUpdatesRetries == 3
ConcurrencyRaised == 1 + 1
ParseArticleConcurrency == 1

Users == {"u1", "u2"}
Urls == {"p", "f", "g"}
RequestUrls == {"p", "f"}    \* the URLs users submit
RetryAfterSecs == {2}

null == "null"

----------------------------------------------------------------------------
(* The upstream servers.  A fetch is answered by any response: status 0    *)
(* stands for a fetch that rejects (connection failure, or the             *)
(* AbortSignal.timeout deadline).  A body is a feed document or an HTML    *)
(* page; an HTML page declares alternate-feed links (alts) and anchors     *)
(* whose href ends in .rss or .xml (anchors), each given by the absolute   *)
(* URL its href resolves to.                                               *)

Items == {
    [guid |-> "g1", link |-> "l1", title |-> "t1", pubDate |-> 2],
    [guid |-> "g2", link |-> "l2", title |-> "t2", pubDate |-> 1],
    [guid |-> null, link |-> "g1", title |-> "t3", pubDate |-> 3] }

Item(g) == CHOOSE it \in Items : it.title = g

FeedBodies == {
    [kind |-> "feed", title |-> "T", link |-> "L", items |-> <<Item("t1"), Item("t2")>>,
     alts |-> {}, anchors |-> {}],
    [kind |-> "feed", title |-> null, link |-> null, items |-> <<Item("t3"), Item("t1")>>,
     alts |-> {}, anchors |-> {}] }

HtmlBody(alts, anchors) ==
    [kind |-> "html", title |-> null, link |-> null, items |-> <<>>, alts |-> alts,
     anchors |-> anchors]

HtmlBodies == {HtmlBody({}, {}), HtmlBody({"f"}, {}), HtmlBody({}, {"f"}), HtmlBody({}, {"f", "g"})}

Bodies == FeedBodies \cup HtmlBodies

Etags == {"e1"}

\* what Readability extracts from an article page (publishedTime 0: none)
Extract(v, t) ==
    [content |-> v, excerpt |-> v, byline |-> v, siteName |-> v, publishedTime |-> t]

\* an article page: reader.parse() returns null for a page that is not readable
Pages ==
    {[kind |-> "page", readable |-> FALSE, extract |-> Extract(null, 0)],
     [kind |-> "page", readable |-> TRUE, extract |-> Extract(null, 0)],
     [kind |-> "page", readable |-> TRUE, extract |-> Extract("x", 4)]}

Response(status, retryAfter, body, etag) ==
    [status |-> status, retryAfter |-> retryAfter, body |-> body, etag |-> etag]

\* the Retry-After header: <<>> when the response has none, <<n>> for n seconds
Failures ==
    {Response(0, <<>>, null, null), Response(404, <<>>, null, null),
     Response(304, <<>>, null, null), Response(429, <<>>, null, null)}
    \cup {Response(429, <<n>>, null, null) : n \in RetryAfterSecs}

Responses == Failures \cup {Response(200, <<>>, b, null) : b \in Bodies}

\* what a feed URL is answered with
FeedResponses ==
    Failures
    \cup {Response(200, <<>>, b, e) : b \in FeedBodies \cup {HtmlBody({}, {})}, e \in Etags}

\* what an article URL is answered with
PageResponses ==
    Failures \cup {Response(200, <<>>, b, null) : b \in Pages}

\* response.ok
Ok(resp) == resp.status >= 200 /\ resp.status <= 299

\* new Parser().parseString(text): resolves for a feed document, rejects otherwise
Parses(body) == body.kind = "feed"

----------------------------------------------------------------------------
(* What a step's function does: it returns a value or throws.  The kinds of *)
(* error are "TypeError" (a fetch that rejects), "Error", "RetryAfterError" *)
(* and "NonRetriableError".                                                *)

Return(v) == [ok |-> TRUE, value |-> v, error |-> null, retryAfter |-> 0]
Throw(kind) == [ok |-> FALSE, value |-> null, error |-> kind, retryAfter |-> 0]
ThrowRetryAfter(n) == [ok |-> FALSE, value |-> null, error |-> "RetryAfterError", retryAfter |-> n]

----------------------------------------------------------------------------
(* The step executor.                                                      *)

Retries(fn) ==
    CASE fn = "add-feed" -> AddFeedRetries
      [] fn = "parse-feed" -> ParseFeedRetries
      [] fn = "parse-article" -> ParseArticleRetries
      [] fn = "schedule-feed-updates" -> ScheduleFeedUpdatesRetries

NoMemo == [s \in {} |-> null]

NewRun(fn, data) ==
    [fn |-> fn, data |-> data, status |-> "running", retries |-> 0, memo |-> NoMemo,
     sleep |-> 0,
     \* history, read by the properties only
     invocations |-> 1, error |-> null, failedStep |-> null,
     resumed |-> FALSE, asked |-> 0, waited |-> 0, early |-> FALSE, sent |-> null,
     clock |-> 0, interrupted |-> {}]

\* the step's result is recorded under its name
Record(run, step, value) ==
    [run EXCEPT !.memo = @ @@ (step :> value), !.error = null, !.failedStep = null,
                !.resumed = FALSE]

\* a run that has ended: its step results and its attempts are read by nothing any
\* more, and only its outcome is kept
Ended(run, status, error) ==
    [fn |-> run.fn, data |-> run.data, status |-> status, error |-> error]

\* a retriable error schedules a re-invocation, after the delay a RetryAfterError
\* asks; a non-retriable one, or a retriable one when no retry is left, ends the run
Thrown(run, step, kind, delay) ==
    IF kind = "NonRetriableError" \/ run.retries >= Retries(run.fn)
    THEN Ended(run, "failed", kind)
    ELSE [run EXCEPT !.status = "sleeping", !.retries = @ + 1, !.sleep = delay,
                     !.error = kind, !.failedStep = step, !.resumed = FALSE]

Settle(run, step, out) ==
    IF out.ok
    THEN Record(run, step, out.value)
    ELSE Thrown(run, step, out.error, out.retryAfter)

\* the function returned
Completed(run) == Ended(run, "completed", null)

\* the function returned an object with this `status`
ReturnedWith(run, status) == Completed(run) @@ [result |-> status]

\* the function threw outside any step
Aborted(run, kind) == Thrown(run, "function", kind, 0)

----------------------------------------------------------------------------
(* The store.                                                              *)

\* SELECT id FROM feeds WHERE url = ?   (0: no row)
FeedIdByUrl(fs, url) ==
    IF \E id \in DOMAIN fs : fs[id].url = url
    THEN CHOOSE id \in DOMAIN fs : fs[id].url = url
    ELSE 0

\* a new row of feeds, with the defaults of the schema (a timestamp is 0 when NULL and
\* 1 when set)
FeedRow(url, type, title) ==
    [url |-> url, type |-> type, title |-> title, is_active |-> TRUE, slug |-> <<>>,
     etag |-> null, last_fetched_at |-> 0, last_success_at |-> 0]

\* INSERT INTO feeds, with no conflict clause and no constraint
InsertFeed(fs, row) == Append(fs, row)

\* INSERT OR IGNORE INTO feeds: url is UNIQUE
InsertOrIgnoreFeed(fs, row) ==
    IF \E id \in DOMAIN fs : fs[id].url = row.url THEN fs ELSE Append(fs, row)

\* INSERT INTO subscriptions, with no conflict clause and no constraint
InsertSubscription(subs, user, feedId) ==
    Append(subs, [user_id |-> user, feed_id |-> feedId])

\* INSERT OR IGNORE INTO subscriptions: UNIQUE(user_id, feed_id)
InsertOrIgnoreSubscription(subs, user, feedId) ==
    IF \E k \in DOMAIN subs : subs[k].user_id = user /\ subs[k].feed_id = feedId
    THEN subs
    ELSE Append(subs, [user_id |-> user, feed_id |-> feedId])

\* INSERT INTO pending_feeds (user_id, original_url, status) VALUES (?, ?, 'pending')
PendingRow(user, url) ==
    [user_id |-> user, original_url |-> url, status |-> "pending",
     candidate_urls |-> {}, error_message |-> null]

\* DELETE FROM pending_feeds WHERE id = ?
DeletePending(pf, id) == [k \in DOMAIN pf \ {id} |-> pf[k]]

\* UPDATE pending_feeds SET status = 'failed', error_message = ? WHERE id = ?
MarkFailed(pf, id, message) ==
    IF id \in DOMAIN pf
    THEN [pf EXCEPT ![id].status = "failed", ![id].error_message = message]
    ELSE pf

\* UPDATE pending_feeds SET status = 'ambiguous', candidate_urls = ? WHERE id = ?
MarkAmbiguousRow(pf, id, urls) ==
    IF id \in DOMAIN pf
    THEN [pf EXCEPT ![id].status = "ambiguous", ![id].candidate_urls = urls]
    ELSE pf

----------------------------------------------------------------------------
(* Events, and the admission of function runs.                             *)

Event(name, data) == [name |-> name, data |-> data]

Send(evs, e) == evs (+) SetToBag({e})

FunctionOf(name) ==
    CASE name = "feed/add.requested" -> "add-feed"
      [] name = "feed/parse.requested" -> "parse-feed"
      [] name = "article/parse" -> "parse-article"

Limit(fn) ==
    CASE fn = "add-feed" -> AddFeedConcurrency
      [] fn = "parse-feed" -> ParseFeedConcurrency
      [] fn = "parse-article" -> ParseArticleConcurrency

\* the concurrency key: event.data.feedId for parse-article, none for the others
KeyOf(fn, data) == IF fn = "parse-article" THEN data.feedId ELSE 0

InFlight(run) == run.status \in {"running", "sleeping"}

InFlightOf(fn, key) ==
    {i \in DOMAIN runs : runs[i].fn = fn /\ InFlight(runs[i]) /\ KeyOf(fn, runs[i].data) = key}

\* a slot, once taken, is never given back
AdmitOnce(fn, key) ==
    Cardinality({i \in DOMAIN runs : runs[i].fn = fn /\ KeyOf(fn, runs[i].data) = key})
       < Limit(fn)

\* an event waits until its function has a free slot under its concurrency key
Admit(fn, key) == Cardinality(InFlightOf(fn, key)) < Limit(fn)

Start(e) ==
    /\ BagIn(e, events)
    /\ Len(runs) < MaxRuns
    /\ Admit(FunctionOf(e.name), KeyOf(FunctionOf(e.name), e.data))
    /\ runs' = Append(runs, NewRun(FunctionOf(e.name), e.data))
    /\ events' = events (-) SetToBag({e})
    /\ UNCHANGED <<hub, requests, store, notifications>>

\* time passes for the runs that wait for their re-invocation
Tick ==
    /\ \E i \in DOMAIN runs :
          runs[i].status = "sleeping" /\ (runs[i].sleep > 0 \/ runs[i].waited < runs[i].asked)
    /\ runs' = [i \in DOMAIN runs |->
                  IF runs[i].status = "sleeping"
                  THEN [runs[i] EXCEPT
                          !.sleep = IF @ > 0 THEN @ - 1 ELSE 0,
                          !.waited = IF @ < runs[i].asked THEN @ + 1 ELSE @]
                  ELSE runs[i]]
    /\ UNCHANGED <<hub, requests, store, events, notifications>>

Reinvoke(i) ==
    /\ runs[i].status = "sleeping"
    /\ runs[i].sleep = 0
    /\ runs' = [runs EXCEPT ![i] =
                  [@ EXCEPT !.status = "running", !.invocations = @ + 1, !.resumed = TRUE,
                            !.early = @ \/ runs[i].waited < runs[i].asked,
                            !.asked = 0, !.waited = 0]]
    /\ UNCHANGED <<hub, requests, store, events, notifications>>

\* the upstream's Retry-After, kept beside the run that it made wait
Noted(run, resp) ==
    IF run.status = "sleeping" /\ resp.status = 429 /\ resp.retryAfter # <<>>
    THEN [run EXCEPT !.asked = resp.retryAfter[1]]
    ELSE run

\* step.sendEvent either sends or fails before sending
SendEventOutcomes == {Return(null), Throw("Error")}

\* one call of notifyUser(user, event, payload)
Push(user, event, feedId, url, pendingId, candidateUrls) ==
    [user |-> user, event |-> event, feedId |-> feedId, url |-> url, pendingId |-> pendingId,
     candidateUrls |-> candidateUrls]

NotifyUser(log, push) == log (+) SetToBag({push})

\* the call notifyUser(user, "feed.parsed", {feedId, feedTitle, newArticles, totalItems})
ParsedPush(user, feedId, newArticles, totalItems) ==
    Push(user, "feed.parsed", feedId, null, 0, {})
       @@ [newArticles |-> newArticles, totalItems |-> totalItems]

----------------------------------------------------------------------------
(* The notification hub (createSseServer).  The registry is the set of the *)
(* entries of the Map `connections`; a connection is the id of its event   *)
(* stream.  A call of notifyUser or broadcast is one action: no other      *)
(* handler runs between its start and its return.  Whether stream.push     *)
(* resolves or rejects is the transport's choice.                          *)

MaxStreams == 3     \* event streams opened in one behaviour
MaxCalls == 2       \* calls of notifyUser and broadcast in one behaviour

\* sse/schemas.ts: the events that have a schema
Schemas == {"feed.parsed", "article.parsed", "feed.added", "feed.add.ambiguous",
            "feed.add.failed"}

\* the keys that the schema of an event requires (none of them is optional)
RequiredKeys(event) ==
    CASE event = "feed.parsed" -> {"feedId", "newArticles", "totalItems"}
      [] event = "article.parsed" -> {"articleId", "feedId", "contentLength"}
      [] event = "feed.added" -> {"feedId", "feedUrl", "pendingId"}
      [] event = "feed.add.ambiguous" -> {"candidateUrls", "originalUrl", "pendingId"}
      [] event = "feed.add.failed" -> {"error", "originalUrl", "pendingId"}

\* the event names the hub is called with: two that have a schema, one that has none
HubEvents == {"feed.parsed", "feed.added", "system.notification"}

\* a payload is given by its keys, each of the type its schema asks for
Payloads == {{"feedId", "newArticles", "totalItems"},
             {"feedId", "feedTitle", "newArticles", "timestamp"},
             {"feedId", "feedUrl", "pendingId"}}

\* validators[event](data).success: v.object accepts unknown keys
Validates(event, data) == RequiredKeys(event) \subseteq data

Connection(userId, stream) == [userId |-> userId, stream |-> stream]

\* connections.get(userId): the streams registered for the user
ConnectionsOf(conns, userId) == {c \in conns : c.userId = userId}

\* removeConnection: connections.delete(userId)
removeConnection(conns, userId) == conns \ ConnectionsOf(conns, userId)

\* addConnection: removeConnection(userId), then connections.set(userId, {stream})
addConnection(conns, userId, stream) ==
    removeConnection(conns, userId) \cup {Connection(userId, stream)}

\* what a call of the hub did
\* (pushed: the streams it pushed to; rejected: those of them whose push rejected)
HubCall(n, op, userId, event, data, threw, returned, sent, pushed, rejected) ==
    [n |-> n, op |-> op, userId |-> userId, event |-> event, data |-> data, threw |-> threw,
     returned |-> returned, sent |-> sent, pushed |-> pushed, rejected |-> rejected]

NoCall == HubCall(0, "none", null, null, {}, FALSE, FALSE, 0, {}, {})

\* notifyUser(userId, event, data), where the pushes to the streams of `rejecting`
\* reject: the registry it leaves, and the call's record.  validators[event] is
\* undefined for an event that has no schema, and calling it throws a TypeError
notifyUser(conns, n, userId, event, data, rejecting) ==
    LET to == {c.stream : c \in ConnectionsOf(conns, userId)}
        call(threw, returned, pushed) ==
            HubCall(n, "notifyUser", userId, event, data, threw, returned, 0, pushed,
                    pushed \cap rejecting)
    IN  IF event \notin Schemas THEN [connections |-> conns, call |-> call(TRUE, FALSE, {})]
        ELSE IF ~Validates(event, data) THEN [connections |-> conns, call |-> call(FALSE, FALSE, {})]
        ELSE IF to = {} THEN [connections |-> conns, call |-> call(FALSE, FALSE, {})]
        ELSE IF to \cap rejecting # {}
        THEN [connections |-> removeConnection(conns, userId), call |-> call(FALSE, FALSE, to)]
        ELSE [connections |-> conns, call |-> call(FALSE, TRUE, to)]

\* broadcast without the removeConnection of its catch block
broadcastKeepingFailed(conns, n, event, data, rejecting) ==
    LET to == {c.stream : c \in conns}
        call(threw, sent, pushed) ==
            HubCall(n, "broadcast", null, event, data, threw, FALSE, sent, pushed,
                    pushed \cap rejecting)
    IN  IF event \notin Schemas THEN [connections |-> conns, call |-> call(TRUE, 0, {})]
        ELSE IF ~Validates(event, data) THEN [connections |-> conns, call |-> call(FALSE, 0, {})]
        ELSE [connections |-> conns, call |-> call(FALSE, Cardinality(to \ rejecting), to)]

\* broadcast(event, data): the loop pushes to every connection, counts the pushes that
\* resolve and removes the connection of every user whose push rejects
broadcast(conns, n, event, data, rejecting) ==
    LET to == {c.stream : c \in conns}
        call(threw, sent, pushed) ==
            HubCall(n, "broadcast", null, event, data, threw, FALSE, sent, pushed,
                    pushed \cap rejecting)
    IN  IF event \notin Schemas THEN [connections |-> conns, call |-> call(TRUE, 0, {})]
        ELSE IF ~Validates(event, data) THEN [connections |-> conns, call |-> call(FALSE, 0, {})]
        ELSE [connections |-> {c \in conns : c.stream \notin rejecting},
              call |-> call(FALSE, Cardinality(to \ rejecting), to)]

\* GET /api/notifications: a new EventStream for the user, registered at once
Connect(userId) ==
    /\ Len(streams) < MaxStreams
    /\ streams' = Append(streams, [userId |-> userId, closed |-> FALSE])
    /\ connections' = addConnection(connections, userId, Len(streams) + 1)
    /\ UNCHANGED <<store, events, runs, notifications, requests, hubCall>>

\* the onClosed callback of a stream: removeConnection(userId), then eventStream.close()
Disconnect(stream) ==
    /\ ~streams[stream].closed
    /\ connections' = removeConnection(connections, streams[stream].userId)
    /\ streams' = [streams EXCEPT ![stream].closed = TRUE]
    /\ UNCHANGED <<store, events, runs, notifications, requests, hubCall>>

NotifyUserCall(userId, event, data, rejecting) ==
    /\ hubCall.n < MaxCalls
    /\ LET done == notifyUser(connections, hubCall.n + 1, userId, event, data, rejecting)
       IN  /\ connections' = done.connections
           /\ hubCall' = done.call
    /\ UNCHANGED <<store, events, runs, notifications, requests, streams>>

BroadcastCall(event, data, rejecting) ==
    /\ hubCall.n < MaxCalls
    /\ LET done == broadcast(connections, hubCall.n + 1, event, data, rejecting)
       IN  /\ connections' = done.connections
           /\ hubCall' = done.call
    /\ UNCHANGED <<store, events, runs, notifications, requests, streams>>

NextHub ==
    \/ \E userId \in Users : Connect(userId)
    \/ \E stream \in DOMAIN streams : Disconnect(stream)
    \/ \E userId \in Users, event \in HubEvents, data \in Payloads,
          rejecting \in SUBSET DOMAIN streams : NotifyUserCall(userId, event, data, rejecting)
    \/ \E event \in HubEvents, data \in Payloads, rejecting \in SUBSET DOMAIN streams :
          BroadcastCall(event, data, rejecting)

----------------------------------------------------------------------------
(* The triggers that come from outside the functions.                      *)

\* a trigger from outside is followed while a job instance can still start
Open == requests < MaxRequests /\ Len(runs) < MaxRuns

\* routes/index.tsx addFeedSubscription: a pending row and the event
AddFeedSubscription(user, url) ==
    /\ Open
    /\ requests' = requests + 1
    /\ UNCHANGED hub
    /\ pending_feeds' = pending_feeds @@ (nextPendingId :> PendingRow(user, url))
    /\ nextPendingId' = nextPendingId + 1
    /\ events' = Send(events, Event("feed/add.requested",
                        [feedUrl |-> url, requestedBy |-> user, pendingId |-> nextPendingId]))
    /\ UNCHANGED <<feeds, subscriptions, articles, runs, notifications>>

\* routes/-notifications.tsx: a chosen candidate is submitted as a new request, and
\* the row of the old request is deleted
ResubmitSubscription(user, url, old) ==
    /\ Open
    /\ requests' = requests + 1
    /\ UNCHANGED hub
    /\ old \in DOMAIN pending_feeds
    /\ pending_feeds' = DeletePending(pending_feeds @@ (nextPendingId :> PendingRow(user, url)), old)
    /\ nextPendingId' = nextPendingId + 1
    /\ events' = Send(events, Event("feed/add.requested",
                        [feedUrl |-> url, requestedBy |-> user, pendingId |-> nextPendingId]))
    /\ UNCHANGED <<feeds, subscriptions, articles, runs, notifications>>

\* a feed/parse.requested event for a feed id, as the scheduled sweep or any client
\* of the event API sends it; the id need not be the id of a row
ParseRequested(feedId) ==
    /\ Open
    /\ requests' = requests + 1
    /\ UNCHANGED hub
    /\ events' = Send(events, Event("feed/parse.requested", [feedId |-> feedId]))
    /\ UNCHANGED <<store, runs, notifications>>

\* routes/feed/$id.tsx: a subscriber opens an article that has not been extracted
RequestArticleParse(user, articleId) ==
    /\ Open
    /\ requests' = requests + 1
    /\ UNCHANGED hub
    /\ articleId \in DOMAIN articles
    /\ \E k \in DOMAIN subscriptions :
          /\ subscriptions[k].user_id = user
          /\ subscriptions[k].feed_id = articles[articleId].feed_id
    /\ articles[articleId].fetch_status \in {"none", "failed"}
    /\ events' = Send(events, Event("article/parse",
                        [feedId |-> articles[articleId].feed_id, articleId |-> articleId]))
    /\ UNCHANGED <<store, runs, notifications>>

----------------------------------------------------------------------------
(* add-feed: where the function is, given the step results recorded.       *)

Has(m, step) == step \in DOMAIN m

\* the first of the steps that has no result, or `end` when all have one
FirstOf(m, steps, end) ==
    IF \E k \in DOMAIN steps : ~Has(m, steps[k])
    THEN {steps[CHOOSE k \in DOMAIN steps :
                  ~Has(m, steps[k]) /\ \A j \in 1..(k - 1) : Has(m, steps[j])]}
    ELSE {end}

\* the id of the validation step of a candidate URL (the steps of the Promise.all
\* share the name "validate-discovered-feeds" and are told apart by their place)
ValidateStep(url) ==
    CASE url = "p" -> "validate-discovered-feeds:p"
      [] url = "f" -> "validate-discovered-feeds:f"
      [] url = "g" -> "validate-discovered-feeds:g"

\* allFeeds.filter(Boolean)
ValidatedFeeds(m) == {u \in m["discover-rss-feeds"] : m[ValidateStep(u)] # null}

AddFeedAt(m) ==
    IF ~Has(m, "check-existing-feed") THEN {"check-existing-feed"}
    ELSE IF m["check-existing-feed"] # 0
    THEN FirstOf(m, <<"mark-pending-completed", "notify-feed-exists">>, "return")
    ELSE IF ~Has(m, "fetch-url") THEN {"fetch-url"}
    ELSE IF ~Has(m, "validate-rss") THEN {"validate-rss"}
    ELSE IF m["validate-rss"].isValid
    THEN FirstOf(m, <<"create-feed-from-rss", "notify-feed-created", "trigger-feed-parse">>,
                 "return")
    ELSE IF ~Has(m, "discover-rss-feeds") THEN {"discover-rss-feeds"}
    ELSE IF m["discover-rss-feeds"] = {}
    THEN FirstOf(m, <<"mark-failed-no-feeds", "notify-failed">>, "throw-no-feeds")
    ELSE IF \E u \in m["discover-rss-feeds"] : ~Has(m, ValidateStep(u))
    THEN {ValidateStep(u) : u \in {c \in m["discover-rss-feeds"] : ~Has(m, ValidateStep(c))}}
    ELSE IF ValidatedFeeds(m) = {}
    THEN FirstOf(m, <<"mark-failed-invalid-feeds", "notify-failed-invalid">>, "throw-no-valid-feeds")
    ELSE IF Cardinality(ValidatedFeeds(m)) = 1
    THEN IF ~Has(m, "check-discovered-feed-exists") THEN {"check-discovered-feed-exists"}
         ELSE IF m["check-discovered-feed-exists"] # 0
         THEN FirstOf(m, <<"mark-pending-completed-discovered",
                           "notify-feed-exists-discovered">>, "return")
         ELSE FirstOf(m, <<"create-discovered-feed", "notify-discovered-feed-created",
                           "trigger-discovered-feed-parse">>, "return")
    ELSE FirstOf(m, <<"mark-ambiguous", "notify-ambiguous">>, "return")

\* the run i is an invocation of add-feed that is at `step`
AtAddFeed(i, step) ==
    /\ runs[i].fn = "add-feed"
    /\ runs[i].status = "running"
    /\ step \in AddFeedAt(runs[i].memo)

----------------------------------------------------------------------------
(* add-feed: what the function of each step does.                          *)

\* "fetch-url"
FetchUrlStep(resp) ==
    IF resp.status = 0 THEN Throw("TypeError")
    ELSE IF resp.status = 429 /\ resp.retryAfter # <<>> THEN ThrowRetryAfter(resp.retryAfter[1])
    ELSE IF ~Ok(resp) THEN Throw("Error")
    ELSE Return([text |-> resp.body])

\* "validate-rss"
ValidateRssStep(text) ==
    IF Parses(text)
    THEN Return([isValid |-> TRUE, parsed |-> text])
    ELSE Return([isValid |-> FALSE, parsed |-> null])

\* "discover-rss-feeds": every typed alternate link adds new URL(feedUrl), the URL of
\* the page itself; every anchor adds the URL its href resolves to
DiscoverRssFeedsStep(text, feedUrl) ==
    Return((IF text.alts # {} THEN {feedUrl} ELSE {}) \cup text.anchors)

\* "validate-discovered-feeds", for one candidate
ValidateDiscoveredFeedsStep(url, resp) ==
    IF resp.status = 0 THEN Throw("TypeError")
    ELSE IF resp.status = 429 /\ resp.retryAfter # <<>> THEN ThrowRetryAfter(resp.retryAfter[1])
    ELSE IF Ok(resp) /\ Parses(resp.body) THEN Return(url)
    ELSE Return(null)

\* the type column of "create-feed-from-rss"
FeedType(parsed) == IF parsed.link # null THEN "rss" ELSE "atom"

----------------------------------------------------------------------------
(* add-feed: the steps.                                                    *)

CheckExistingFeed(i) ==
    /\ AtAddFeed(i, "check-existing-feed")
    /\ runs' = [runs EXCEPT ![i] =
                  Settle(@, "check-existing-feed", Return(FeedIdByUrl(feeds, @.data.feedUrl)))]
    /\ UNCHANGED <<hub, requests, store, events, notifications>>

MarkPendingCompleted(i) ==
    /\ AtAddFeed(i, "mark-pending-completed")
    /\ pending_feeds' = DeletePending(pending_feeds, runs[i].data.pendingId)
    /\ subscriptions' = InsertOrIgnoreSubscription(subscriptions, runs[i].data.requestedBy,
                                                   runs[i].memo["check-existing-feed"])
    /\ runs' = [runs EXCEPT ![i] = Settle(@, "mark-pending-completed", Return(null))]
    /\ UNCHANGED <<hub, requests, feeds, nextPendingId, articles, events, notifications>>

NotifyFeedExists(i) ==
    /\ AtAddFeed(i, "notify-feed-exists")
    /\ notifications' = NotifyUser(notifications,
            Push(runs[i].data.requestedBy, "feed.added", runs[i].memo["check-existing-feed"],
                 runs[i].data.feedUrl, runs[i].data.pendingId, {}))
    /\ runs' = [runs EXCEPT ![i] = Settle(@, "notify-feed-exists", Return(null))]
    /\ UNCHANGED <<hub, requests, store, events>>

FetchUrl(i) ==
    /\ AtAddFeed(i, "fetch-url")
    /\ \E resp \in Responses :
          /\ runs' = [runs EXCEPT ![i] = Noted(Settle(@, "fetch-url", FetchUrlStep(resp)), resp)]
    /\ UNCHANGED <<hub, requests, store, events, notifications>>

ValidateRss(i) ==
    /\ AtAddFeed(i, "validate-rss")
    /\ runs' = [runs EXCEPT ![i] =
                  Settle(@, "validate-rss", ValidateRssStep(@.memo["fetch-url"].text))]
    /\ UNCHANGED <<hub, requests, store, events, notifications>>

CreateFeedFromRss(i) ==
    /\ AtAddFeed(i, "create-feed-from-rss")
    /\ LET parsed == runs[i].memo["validate-rss"].parsed
           fs == InsertOrIgnoreFeed(feeds,
                    FeedRow(runs[i].data.feedUrl, FeedType(parsed), parsed.title))
           feedId == FeedIdByUrl(fs, runs[i].data.feedUrl)
       IN  /\ feeds' = fs
           /\ pending_feeds' = DeletePending(pending_feeds, runs[i].data.pendingId)
           /\ subscriptions' = InsertOrIgnoreSubscription(subscriptions,
                                    runs[i].data.requestedBy, feedId)
           /\ runs' = [runs EXCEPT ![i] = Settle(@, "create-feed-from-rss", Return(feedId))]
    /\ UNCHANGED <<hub, requests, nextPendingId, articles, events, notifications>>

\* the push of "notify-feed-created" made outside step.run: no result is recorded
NotifyFeedCreatedOutsideStep(i) ==
    /\ AtAddFeed(i, "notify-feed-created")
    /\ notifications' = NotifyUser(notifications,
            Push(runs[i].data.requestedBy, "feed.added", runs[i].memo["create-feed-from-rss"],
                 runs[i].data.feedUrl, runs[i].data.pendingId, {}))
    /\ UNCHANGED <<hub, requests, store, events, runs>>

NotifyFeedCreated(i) ==
    /\ AtAddFeed(i, "notify-feed-created")
    /\ notifications' = NotifyUser(notifications,
            Push(runs[i].data.requestedBy, "feed.added", runs[i].memo["create-feed-from-rss"],
                 runs[i].data.feedUrl, runs[i].data.pendingId, {}))
    /\ runs' = [runs EXCEPT ![i] = Settle(@, "notify-feed-created", Return(null))]
    /\ UNCHANGED <<hub, requests, store, events>>

\* "trigger-feed-parse" sending the event once more than it is asked to
TriggerFeedParseTwice(i) ==
    /\ AtAddFeed(i, "trigger-feed-parse")
    /\ \E out \in SendEventOutcomes :
          /\ runs' = [runs EXCEPT ![i] = Settle(@, "trigger-feed-parse", out)]
          /\ events' = IF out.ok
                       THEN Send(Send(events, Event("feed/parse.requested",
                                         [feedId |-> runs[i].memo["create-feed-from-rss"]])),
                                 Event("feed/parse.requested",
                                       [feedId |-> runs[i].memo["create-feed-from-rss"]]))
                       ELSE events
    /\ UNCHANGED <<hub, requests, store, notifications>>

TriggerFeedParse(i) ==
    /\ AtAddFeed(i, "trigger-feed-parse")
    /\ \E out \in SendEventOutcomes :
          /\ runs' = [runs EXCEPT ![i] = Settle(@, "trigger-feed-parse", out)]
          /\ events' = IF out.ok
                       THEN Send(events, Event("feed/parse.requested",
                                    [feedId |-> runs[i].memo["create-feed-from-rss"]]))
                       ELSE events
    /\ UNCHANGED <<hub, requests, store, notifications>>

DiscoverRssFeeds(i) ==
    /\ AtAddFeed(i, "discover-rss-feeds")
    /\ runs' = [runs EXCEPT ![i] =
                  Settle(@, "discover-rss-feeds",
                         DiscoverRssFeedsStep(@.memo["fetch-url"].text, @.data.feedUrl))]
    /\ UNCHANGED <<hub, requests, store, events, notifications>>

MarkFailedNoFeeds(i) ==
    /\ AtAddFeed(i, "mark-failed-no-feeds")
    /\ pending_feeds' = MarkFailed(pending_feeds, runs[i].data.pendingId, "no feed links were found")
    /\ runs' = [runs EXCEPT ![i] = Settle(@, "mark-failed-no-feeds", Return(null))]
    /\ UNCHANGED <<hub, requests, feeds, subscriptions, nextPendingId, articles, events, notifications>>

NotifyFailed(i) ==
    /\ AtAddFeed(i, "notify-failed")
    /\ notifications' = NotifyUser(notifications,
            Push(runs[i].data.requestedBy, "feed.add.failed", 0,
                 runs[i].data.feedUrl, runs[i].data.pendingId, {}))
    /\ runs' = [runs EXCEPT ![i] = Settle(@, "notify-failed", Return(null))]
    /\ UNCHANGED <<hub, requests, store, events>>

\* throw new NonRetriableError("No RSS feeds found")
ThrowNoFeeds(i) ==
    /\ AtAddFeed(i, "throw-no-feeds")
    /\ runs' = [runs EXCEPT ![i] = Aborted(@, "NonRetriableError")]
    /\ UNCHANGED <<hub, requests, store, events, notifications>>

ValidateDiscoveredFeeds(i, url) ==
    /\ AtAddFeed(i, ValidateStep(url))
    /\ \E resp \in Responses :
          /\ runs' = [runs EXCEPT ![i] =
                        Noted(Settle(@, ValidateStep(url), ValidateDiscoveredFeedsStep(url, resp)),
                              resp)]
    /\ UNCHANGED <<hub, requests, store, events, notifications>>

MarkFailedInvalidFeeds(i) ==
    /\ AtAddFeed(i, "mark-failed-invalid-feeds")
    /\ pending_feeds' = MarkFailed(pending_feeds, runs[i].data.pendingId, "none were valid feeds")
    /\ runs' = [runs EXCEPT ![i] = Settle(@, "mark-failed-invalid-feeds", Return(null))]
    /\ UNCHANGED <<hub, requests, feeds, subscriptions, nextPendingId, articles, events, notifications>>

NotifyFailedInvalid(i) ==
    /\ AtAddFeed(i, "notify-failed-invalid")
    /\ notifications' = NotifyUser(notifications,
            Push(runs[i].data.requestedBy, "feed.add.failed", 0,
                 runs[i].data.feedUrl, runs[i].data.pendingId, {}))
    /\ runs' = [runs EXCEPT ![i] = Settle(@, "notify-failed-invalid", Return(null))]
    /\ UNCHANGED <<hub, requests, store, events>>

\* throw new Error("No valid RSS feeds found"): an error the executor retries
ThrowNoValidFeedsRetriable(i) ==
    /\ AtAddFeed(i, "throw-no-valid-feeds")
    /\ runs' = [runs EXCEPT ![i] = Aborted(@, "Error")]
    /\ UNCHANGED <<hub, requests, store, events, notifications>>

\* throw new NonRetriableError("No valid RSS feeds found")
ThrowNoValidFeeds(i) ==
    /\ AtAddFeed(i, "throw-no-valid-feeds")
    /\ runs' = [runs EXCEPT ![i] = Aborted(@, "NonRetriableError")]
    /\ UNCHANGED <<hub, requests, store, events, notifications>>

\* validatedFeeds[0], when validatedFeeds.length === 1
DiscoveredUrl(m) == CHOOSE u \in ValidatedFeeds(m) : TRUE

CheckDiscoveredFeedExists(i) ==
    /\ AtAddFeed(i, "check-discovered-feed-exists")
    /\ runs' = [runs EXCEPT ![i] =
                  Settle(@, "check-discovered-feed-exists",
                         Return(FeedIdByUrl(feeds, DiscoveredUrl(@.memo))))]
    /\ UNCHANGED <<hub, requests, store, events, notifications>>

MarkPendingCompletedDiscovered(i) ==
    /\ AtAddFeed(i, "mark-pending-completed-discovered")
    /\ pending_feeds' = DeletePending(pending_feeds, runs[i].data.pendingId)
    /\ subscriptions' = InsertOrIgnoreSubscription(subscriptions, runs[i].data.requestedBy,
                                                   runs[i].memo["check-discovered-feed-exists"])
    /\ runs' = [runs EXCEPT ![i] = Settle(@, "mark-pending-completed-discovered", Return(null))]
    /\ UNCHANGED <<hub, requests, feeds, nextPendingId, articles, events, notifications>>

NotifyFeedExistsDiscovered(i) ==
    /\ AtAddFeed(i, "notify-feed-exists-discovered")
    /\ notifications' = NotifyUser(notifications,
            Push(runs[i].data.requestedBy, "feed.added",
                 runs[i].memo["check-discovered-feed-exists"],
                 DiscoveredUrl(runs[i].memo), runs[i].data.pendingId, {}))
    /\ runs' = [runs EXCEPT ![i] = Settle(@, "notify-feed-exists-discovered", Return(null))]
    /\ UNCHANGED <<hub, requests, store, events>>

CreateDiscoveredFeed(i) ==
    /\ AtAddFeed(i, "create-discovered-feed")
    /\ LET url == DiscoveredUrl(runs[i].memo)
           fs == InsertOrIgnoreFeed(feeds, FeedRow(url, "rss", null))
           feedId == FeedIdByUrl(fs, url)
       IN  /\ feeds' = fs
           /\ pending_feeds' = DeletePending(pending_feeds, runs[i].data.pendingId)
           /\ subscriptions' = InsertOrIgnoreSubscription(subscriptions,
                                    runs[i].data.requestedBy, feedId)
           /\ runs' = [runs EXCEPT ![i] = Settle(@, "create-discovered-feed", Return(feedId))]
    /\ UNCHANGED <<hub, requests, nextPendingId, articles, events, notifications>>

NotifyDiscoveredFeedCreated(i) ==
    /\ AtAddFeed(i, "notify-discovered-feed-created")
    /\ notifications' = NotifyUser(notifications,
            Push(runs[i].data.requestedBy, "feed.added", runs[i].memo["create-discovered-feed"],
                 DiscoveredUrl(runs[i].memo), runs[i].data.pendingId, {}))
    /\ runs' = [runs EXCEPT ![i] = Settle(@, "notify-discovered-feed-created", Return(null))]
    /\ UNCHANGED <<hub, requests, store, events>>

TriggerDiscoveredFeedParse(i) ==
    /\ AtAddFeed(i, "trigger-discovered-feed-parse")
    /\ \E out \in SendEventOutcomes :
          /\ runs' = [runs EXCEPT ![i] = Settle(@, "trigger-discovered-feed-parse", out)]
          /\ events' = IF out.ok
                       THEN Send(events, Event("feed/parse.requested",
                                    [feedId |-> runs[i].memo["create-discovered-feed"]]))
                       ELSE events
    /\ UNCHANGED <<hub, requests, store, notifications>>

MarkAmbiguous(i) ==
    /\ AtAddFeed(i, "mark-ambiguous")
    /\ pending_feeds' = MarkAmbiguousRow(pending_feeds, runs[i].data.pendingId,
                                         ValidatedFeeds(runs[i].memo))
    /\ runs' = [runs EXCEPT ![i] = Settle(@, "mark-ambiguous", Return(null))]
    /\ UNCHANGED <<hub, requests, feeds, subscriptions, nextPendingId, articles, events, notifications>>

NotifyAmbiguous(i) ==
    /\ AtAddFeed(i, "notify-ambiguous")
    /\ notifications' = NotifyUser(notifications,
            Push(runs[i].data.requestedBy, "feed.add.ambiguous", 0,
                 runs[i].data.feedUrl, runs[i].data.pendingId, ValidatedFeeds(runs[i].memo)))
    /\ runs' = [runs EXCEPT ![i] = Settle(@, "notify-ambiguous", Return(null))]
    /\ UNCHANGED <<hub, requests, store, events>>

\* any of the function's return statements
AddFeedReturn(i) ==
    /\ AtAddFeed(i, "return")
    /\ runs' = [runs EXCEPT ![i] = Completed(@)]
    /\ UNCHANGED <<hub, requests, store, events, notifications>>

----------------------------------------------------------------------------
(* Slugs.  A text is the sequence of its characters; a title or a URL is   *)
(* named by a string and Chars, Hostname and LastSegment give its text.    *)
(* <<>> is the NULL of the slug column (a slug is never the empty text).   *)

UpperCase == <<"A", "B", "C", "D", "E", "F", "G", "H", "I", "J", "K", "L", "M", "N", "O", "P", "Q", "R", "S", "T", "U", "V", "W", "X", "Y", "Z">>

LowerCase == <<"a", "b", "c", "d", "e", "f", "g", "h", "i", "j", "k", "l", "m", "n", "o", "p", "q", "r", "s", "t", "u", "v", "w", "x", "y", "z">>

Digits == <<"0", "1", "2", "3", "4", "5", "6", "7", "8", "9">>

\* the characters of the titles of the model
Chars(title) ==
    CASE title = "T" -> <<"T">>
      [] title = "t1" -> <<"t", "1">>
      [] title = "t2" -> <<"t", "2">>
      [] title = "t3" -> <<"t", "3">>
      [] title = "Untitled" -> <<"U", "n", "t", "i", "t", "l", "e", "d">>
      [] title = "unknown" -> <<"u", "n", "k", "n", "o", "w", "n">>
      [] title = "Hacker News" -> <<"H", "a", "c", "k", "e", "r", " ", "N", "e", "w", "s">>
      [] title = " Test -- Blog! " -> <<" ", "T", "e", "s", "t", " ", "-", "-", " ", "B", "l", "o", "g", "!", " ">>
      [] title = "!!!" -> <<"!", "!", "!">>
      [] title = "   " -> <<" ", " ", " ">>
      [] title = "" -> <<>>
      [] title = "a x 100" -> [k \in 1..100 |-> "a"]
      [] title = "a x 99, b x 6" -> [k \in 1..105 |-> IF k <= 99 THEN "a" ELSE "b"]

\* new URL(url) does not throw
UrlParses(url) == url # "not a url"

\* new URL(url).hostname
Hostname(url) ==
    CASE url = "p" -> <<"p">>
      [] url = "f" -> <<"f">>
      [] url = "g" -> <<"g">>
      [] url = "https://www.ex.co/feed" -> <<"w", "w", "w", ".", "e", "x", ".", "c", "o">>
      [] url = "file:///feed" -> <<>>

\* the last non-empty segment of new URL(url).pathname (<<>>: there is none)
LastSegment(url) ==
    CASE url = "l1" -> <<"l", "1">>
      [] url = "l2" -> <<"l", "2">>
      [] url = "g1" -> <<"g", "1">>
      [] url = "https://ex.co/posts/My_Post.v2.html" -> <<"M", "y", "_", "P", "o", "s", "t", ".", "v", "2", ".", "h", "t", "m", "l">>
      [] url = "https://ex.co/" -> <<>>

Min(a, b) == IF a <= b THEN a ELSE b

\* text.substring(0, n)
substring(text, n) == SubSeq(text, 1, Min(n, Len(text)))

toLowerCase(text) ==
    [k \in DOMAIN text |->
        IF \E j \in DOMAIN UpperCase : UpperCase[j] = text[k]
        THEN LowerCase[CHOOSE j \in DOMAIN UpperCase : UpperCase[j] = text[k]]
        ELSE text[k]]

\* the text without the characters of `set` at its start, and at its end
StripStart(text, set) ==
    IF \A k \in DOMAIN text : text[k] \in set THEN <<>>
    ELSE SubSeq(text, CHOOSE k \in DOMAIN text :
                         text[k] \notin set /\ \A j \in 1..(k - 1) : text[j] \in set,
                Len(text))

StripEnd(text, set) ==
    IF \A k \in DOMAIN text : text[k] \in set THEN <<>>
    ELSE SubSeq(text, 1, CHOOSE k \in DOMAIN text :
                            text[k] \notin set /\ \A j \in (k + 1)..Len(text) : text[j] \in set)

trim(text) == StripEnd(StripStart(text, {" "}), {" "})

\* [a-z0-9]
Alphanumeric == {LowerCase[k] : k \in DOMAIN LowerCase} \cup {Digits[k] : k \in DOMAIN Digits}

IsCharacter(c) == c # ""

\* text.replace(/[^a-z0-9]+/g, "-"): a hyphen for the first character of every run
\* of other characters, and nothing for the rest of the run
ReplaceNonAlphanumeric(text) ==
    SelectSeq([k \in DOMAIN text |->
                  IF text[k] \in Alphanumeric THEN text[k]
                  ELSE IF k = 1 \/ text[k - 1] \in Alphanumeric THEN "-"
                  ELSE ""],
              IsCharacter)

\* text.replace(/^-+|-+$/g, "")
StripHyphens(text) == StripEnd(StripStart(text, {"-"}), {"-"})

\* text.replace(/\./g, "-")
DotsToHyphens(text) == [k \in DOMAIN text |-> IF text[k] = "." THEN "-" ELSE text[k]]

\* text.replace(/^www\./, "")
DropWww(text) ==
    IF Len(text) >= 4 /\ SubSeq(text, 1, 4) = <<"w", "w", "w", ".">>
    THEN SubSeq(text, 5, Len(text))
    ELSE text

\* text.replace(/\.[^.]*$/, "")
RemoveExtension(text) ==
    IF \E k \in DOMAIN text : text[k] = "."
    THEN SubSeq(text, 1, (CHOOSE k \in DOMAIN text :
                             text[k] = "." /\ \A j \in (k + 1)..Len(text) : text[j] # ".") - 1)
    ELSE text

MaxSlugLength == 100

\* the slug of a title: lower case, non-alphanumerics to hyphens, at most 100 characters
Slugify(text) ==
    substring(StripHyphens(ReplaceNonAlphanumeric(trim(toLowerCase(text)))), MaxSlugLength)

\* the base slug of a title that is truthy and not blank, and "" otherwise
TitleSlug(title) ==
    IF title # null /\ trim(Chars(title)) # <<>> THEN Slugify(Chars(title)) ELSE <<>>

\* `${n}`
RECURSIVE Decimal(_)
Decimal(n) ==
    IF n < 10 THEN <<Digits[n + 1]>> ELSE Decimal(n \div 10) \o <<Digits[(n % 10) + 1]>>

\* a candidate carrying its suffix whole after the whole base
SuffixedWhole(baseSlug, suffix) ==
    IF suffix = 0 THEN baseSlug ELSE baseSlug \o <<"-">> \o Decimal(suffix)

\* the candidate of the uniqueness loop after `suffix` increments
Suffixed(baseSlug, suffix) ==
    IF suffix = 0
    THEN baseSlug
    ELSE LET suffixStr == <<"-">> \o Decimal(suffix)
             maxBaseLength == MaxSlugLength - Len(suffixStr)
         IN  substring(baseSlug, maxBaseLength) \o suffixStr

\* one more than the largest suffix taken
AfterLast(taken) ==
    IF taken = {} THEN 0 ELSE (CHOOSE n \in taken : \A k \in taken : k <= n) + 1

\* the first suffix of 0, 1, 2, ... that is not in `taken`
FirstFree(taken) == CHOOSE n \in 0..64 : n \notin taken /\ \A k \in 0..(n - 1) : k \in taken

\* the base slug of a feed: from the title, or else from the host of the URL
FeedBaseSlug(title, feedUrl) ==
    LET fromTitle == TitleSlug(title)
        fromUrl == IF fromTitle # <<>> THEN fromTitle
                   ELSE IF UrlParses(feedUrl)
                   THEN substring(DotsToHyphens(DropWww(Hostname(feedUrl))), MaxSlugLength)
                   ELSE <<"f", "e", "e", "d">>
    IN  IF fromUrl # <<>> THEN fromUrl ELSE <<"f", "e", "e", "d">>

\* db/slug.ts generateUniqueSlug
generateUniqueSlug(fs, title, feedUrl) ==
    LET baseSlug == FeedBaseSlug(title, feedUrl)
        existing == {n \in 0..64 : \E id \in DOMAIN fs : fs[id].slug = Suffixed(baseSlug, n)}
    IN  Suffixed(baseSlug, FirstFree(existing))

\* the base slug of an article: from the title, or else from the last segment of the
\* path of the URL
ArticleBaseSlug(title, articleUrl) ==
    LET fromTitle == TitleSlug(title)
        fromUrl == IF fromTitle # <<>> THEN fromTitle
                   ELSE IF articleUrl # null /\ UrlParses(articleUrl)
                   THEN substring(StripHyphens(ReplaceNonAlphanumeric(
                                     RemoveExtension(toLowerCase(LastSegment(articleUrl))))),
                                  MaxSlugLength)
                   ELSE <<>>
    IN  IF fromUrl # <<>> THEN fromUrl ELSE <<"a", "r", "t", "i", "c", "l", "e">>

\* the base slug taken as it is, without the loop that looks for a free one
ArticleSlugUnchecked(arts, feedId, title, articleUrl) == ArticleBaseSlug(title, articleUrl)

\* db/slug.ts generateUniqueArticleSlug
generateUniqueArticleSlug(arts, feedId, title, articleUrl) ==
    LET baseSlug == ArticleBaseSlug(title, articleUrl)
        existing == {n \in 0..64 : \E id \in DOMAIN arts :
                          arts[id].feed_id = feedId /\ arts[id].slug = Suffixed(baseSlug, n)}
    IN  Suffixed(baseSlug, FirstFree(existing))

----------------------------------------------------------------------------
(* parse-feed: the article rows.  published_at 0 is NULL.                  *)

\* item.link ?? item.guid ?? item.title ?? "unknown"
DedupKeyLinkFirst(item) ==
    IF item.link # null THEN item.link
    ELSE IF item.guid # null THEN item.guid
    ELSE IF item.title # null THEN item.title
    ELSE "unknown"

\* item.guid ?? item.link ?? item.title ?? "unknown"
DedupKey(item) ==
    IF item.guid # null THEN item.guid
    ELSE IF item.link # null THEN item.link
    ELSE IF item.title # null THEN item.title
    ELSE "unknown"

\* the values bound to INSERT OR IGNORE INTO articles
ArticleRow(arts, feedId, item) ==
    LET title == IF item.title # null THEN item.title ELSE "Untitled"
    IN  [feed_id |-> feedId, guid |-> DedupKey(item), url |-> item.link,
         slug |-> generateUniqueArticleSlug(arts, feedId, title, item.link),
         title |-> title, content |-> null, summary |-> null, author_name |-> null,
         source_title |-> null, published_at |-> item.pubDate, fetch_status |-> "none"]

\* INSERT INTO articles, with no conflict clause and no constraint to conflict with
InsertArticle(arts, row) == Append(arts, row)

\* INSERT OR IGNORE INTO articles: UNIQUE(feed_id, guid)
InsertOrIgnoreArticle(arts, row) ==
    IF \E id \in DOMAIN arts : arts[id].feed_id = row.feed_id /\ arts[id].guid = row.guid
    THEN arts
    ELSE Append(arts, row)

\* the loop of "insert-articles" over parsedFeed.items, in one transaction
RECURSIVE InsertArticles(_, _, _)
InsertArticles(arts, feedId, items) ==
    IF items = <<>>
    THEN arts
    ELSE InsertArticles(InsertOrIgnoreArticle(arts, ArticleRow(arts, feedId, Head(items))),
                        feedId, Tail(items))

\* SELECT id FROM articles WHERE feed_id = ? ORDER BY published_at DESC LIMIT 20:
\* the results the query can give (rows of equal published_at come in any order)
RecentLimit == 20

RecentArticles(arts, feedId) ==
    LET ids == {id \in DOMAIN arts : arts[id].feed_id = feedId}
        n == IF Cardinality(ids) < RecentLimit THEN Cardinality(ids) ELSE RecentLimit
    IN  {S \in SUBSET ids :
            /\ Cardinality(S) = n
            /\ \A a \in S, b \in ids \ S : arts[a].published_at >= arts[b].published_at}

\* SELECT DISTINCT user_id FROM subscriptions, whatever the feed
EveryUser(subs, feedId) == {subs[k].user_id : k \in DOMAIN subs}

\* SELECT DISTINCT user_id FROM subscriptions WHERE feed_id = ?
Subscribers(subs, feedId) == {subs[k].user_id : k \in {j \in DOMAIN subs : subs[j].feed_id = feedId}}

----------------------------------------------------------------------------
(* parse-feed: where the function is, and what its steps do.               *)

\* parse-feed with "notify-subscribers" awaited before "fan-out-parse-articles"
ParseFeedAtNotifyFirst(m) ==
    IF ~Has(m, "validate-feed") THEN {"validate-feed"}
    ELSE IF ~Has(m, "fetch-rss-feed") THEN {"fetch-rss-feed"}
    ELSE IF m["fetch-rss-feed"].status = 304
    THEN FirstOf(m, <<"update-last-fetched">>, "return")
    ELSE IF ~Has(m, "parse-rss-xml") THEN {"parse-rss-xml"}
    ELSE IF ~Has(m, "update-feed-metadata") THEN {"update-feed-metadata"}
    ELSE IF ~Has(m, "insert-articles") THEN {"insert-articles"}
    ELSE IF m["insert-articles"] = {} THEN {"return"}
    ELSE FirstOf(m, <<"get-recent-articles", "notify-subscribers", "fan-out-parse-articles">>,
                 "return")

ParseFeedAt(m) ==
    IF ~Has(m, "validate-feed") THEN {"validate-feed"}
    ELSE IF ~Has(m, "fetch-rss-feed") THEN {"fetch-rss-feed"}
    ELSE IF m["fetch-rss-feed"].status = 304
    THEN FirstOf(m, <<"update-last-fetched">>, "return")
    ELSE IF ~Has(m, "parse-rss-xml") THEN {"parse-rss-xml"}
    ELSE IF ~Has(m, "update-feed-metadata") THEN {"update-feed-metadata"}
    ELSE IF ~Has(m, "insert-articles") THEN {"insert-articles"}
    ELSE IF m["insert-articles"] = {} THEN {"return"}
    ELSE FirstOf(m, <<"get-recent-articles", "fan-out-parse-articles", "notify-subscribers">>,
                 "return")

AtParseFeed(i, step) ==
    /\ runs[i].fn = "parse-feed"
    /\ runs[i].status = "running"
    /\ step \in ParseFeedAt(runs[i].memo)

\* "validate-feed"
ValidateFeedStep(fs, feedId) ==
    IF feedId \notin DOMAIN fs THEN Throw("Error")
    ELSE IF ~fs[feedId].is_active THEN Throw("Error")
    ELSE Return(fs[feedId])

\* the If-None-Match header of "fetch-rss-feed" when no validator is ever sent
NoValidator(feed) == null

\* the If-None-Match header of "fetch-rss-feed": the stored etag, if there is one
\* (null: the header is not sent)
IfNoneMatch(feed) == feed.etag

\* what the upstream of a feed answers to a request: 304 only to a request whose
\* If-None-Match is the etag of what it serves
Upstream(ifNoneMatch) == {resp \in FeedResponses : resp.status = 304 => ifNoneMatch \in Etags}

\* the status of the object that parse-feed returns
ParseFeedResult(m) == IF m["fetch-rss-feed"].status = 304 THEN "not-modified" ELSE "success"

\* the counts returned when every entry of the document is counted as new
CountsOfEntries(m) ==
    IF m["fetch-rss-feed"].status = 304 THEN NoMemo
    ELSE [totalItems |-> Len(m["parse-rss-xml"].items),
          newArticles |-> Len(m["parse-rss-xml"].items)]

\* totalItems and newArticles of the object that a successful parse-feed returns
ParseFeedCounts(m) ==
    IF m["fetch-rss-feed"].status = 304 THEN NoMemo
    ELSE [totalItems |-> Len(m["parse-rss-xml"].items),
          newArticles |-> Cardinality(m["insert-articles"])]

\* "fetch-rss-feed" without its test of status 429
FetchRssFeedStepNoRateLimit(resp) ==
    IF resp.status = 0 THEN Throw("TypeError")
    ELSE IF resp.status = 304 THEN Return([status |-> 304, xml |-> null, etag |-> null])
    ELSE IF ~Ok(resp) THEN Throw("Error")
    ELSE Return([status |-> 200, xml |-> resp.body, etag |-> resp.etag])

\* "fetch-rss-feed"
FetchRssFeedStep(resp) ==
    IF resp.status = 0 THEN Throw("TypeError")
    ELSE IF resp.status = 304 THEN Return([status |-> 304, xml |-> null, etag |-> null])
    ELSE IF resp.status = 429 /\ resp.retryAfter # <<>> THEN ThrowRetryAfter(resp.retryAfter[1])
    ELSE IF ~Ok(resp) THEN Throw("Error")
    ELSE Return([status |-> 200, xml |-> resp.body, etag |-> resp.etag])

\* "parse-rss-xml": parseString returns a promise and is not awaited inside the try,
\* so its rejection leaves the step as it is and the catch clause never runs
ParseRssXmlStep(xml) ==
    IF Parses(xml) THEN Return(xml) ELSE Throw("Error")

----------------------------------------------------------------------------
(* parse-feed: the steps.                                                  *)

ValidateFeed(i) ==
    /\ AtParseFeed(i, "validate-feed")
    /\ runs' = [runs EXCEPT ![i] =
                  Settle(@, "validate-feed", ValidateFeedStep(feeds, @.data.feedId))]
    /\ UNCHANGED <<hub, requests, store, events, notifications>>

FetchRssFeed(i) ==
    /\ AtParseFeed(i, "fetch-rss-feed")
    /\ LET ifNoneMatch == IfNoneMatch(runs[i].memo["validate-feed"])
       IN  \E resp \in Upstream(ifNoneMatch) :
              runs' = [runs EXCEPT ![i] =
                         Noted(Settle([@ EXCEPT !.sent = ifNoneMatch], "fetch-rss-feed",
                                      FetchRssFeedStep(resp)), resp)]
    /\ UNCHANGED <<hub, requests, store, events, notifications>>

\* "update-last-fetched" with the validator cleared as well
UpdateLastFetchedAndEtag(i) ==
    /\ AtParseFeed(i, "update-last-fetched")
    /\ feeds' = [feeds EXCEPT ![runs[i].data.feedId] =
                    [@ EXCEPT !.last_fetched_at = 1, !.etag = null]]
    /\ runs' = [runs EXCEPT ![i] = Settle(@, "update-last-fetched", Return(null))]
    /\ UNCHANGED <<hub, requests, subscriptions, pending_feeds, nextPendingId, articles, events,
                   notifications>>

\* UPDATE feeds SET last_fetched_at = CURRENT_TIMESTAMP WHERE id = ?
UpdateLastFetched(i) ==
    /\ AtParseFeed(i, "update-last-fetched")
    /\ feeds' = [feeds EXCEPT ![runs[i].data.feedId].last_fetched_at = 1]
    /\ runs' = [runs EXCEPT ![i] = Settle(@, "update-last-fetched", Return(null))]
    /\ UNCHANGED <<hub, requests, subscriptions, pending_feeds, nextPendingId, articles, events,
                   notifications>>

\* "parse-rss-xml" with a handler that clears the feed's validator when the document
\* does not parse
ParseRssXmlClearingEtag(i) ==
    /\ AtParseFeed(i, "parse-rss-xml")
    /\ runs' = [runs EXCEPT ![i] =
                  Settle(@, "parse-rss-xml", ParseRssXmlStep(@.memo["fetch-rss-feed"].xml))]
    /\ feeds' = IF ParseRssXmlStep(runs[i].memo["fetch-rss-feed"].xml).ok
                THEN feeds
                ELSE [feeds EXCEPT ![runs[i].data.feedId].etag = null]
    /\ UNCHANGED <<hub, requests, subscriptions, pending_feeds, nextPendingId, articles, events,
                   notifications>>

ParseRssXml(i) ==
    /\ AtParseFeed(i, "parse-rss-xml")
    /\ runs' = [runs EXCEPT ![i] =
                  Settle(@, "parse-rss-xml", ParseRssXmlStep(@.memo["fetch-rss-feed"].xml))]
    /\ UNCHANGED <<hub, requests, store, events, notifications>>

UpdateFeedMetadata(i) ==
    /\ AtParseFeed(i, "update-feed-metadata")
    /\ LET m == runs[i].memo
           parsedFeed == m["parse-rss-xml"]
           newSlug == generateUniqueSlug(feeds, parsedFeed.title, m["validate-feed"].url)
       IN  feeds' = [feeds EXCEPT ![runs[i].data.feedId] =
                        [@ EXCEPT !.slug = newSlug, !.title = parsedFeed.title,
                                  !.etag = m["fetch-rss-feed"].etag,
                                  !.last_fetched_at = 1, !.last_success_at = 1]]
    /\ runs' = [runs EXCEPT ![i] = Settle(@, "update-feed-metadata", Return(null))]
    /\ UNCHANGED <<hub, requests, subscriptions, pending_feeds, nextPendingId, articles, events,
                   notifications>>

\* the step returns the ids of the rows it inserted
InsertArticlesStep(i) ==
    /\ AtParseFeed(i, "insert-articles")
    /\ articles' = InsertArticles(articles, runs[i].data.feedId,
                                  runs[i].memo["parse-rss-xml"].items)
    /\ runs' = [runs EXCEPT ![i] =
                  Settle(@, "insert-articles", Return((Len(articles) + 1)..Len(articles')))]
    /\ UNCHANGED <<hub, requests, feeds, subscriptions, pending_feeds, nextPendingId, events,
                   notifications>>

GetRecentArticles(i) ==
    /\ AtParseFeed(i, "get-recent-articles")
    /\ \E ids \in RecentArticles(articles, runs[i].data.feedId) :
          runs' = [runs EXCEPT ![i] = Settle(@, "get-recent-articles", Return(ids))]
    /\ UNCHANGED <<hub, requests, store, events, notifications>>

FanOutParseArticles(i) ==
    /\ AtParseFeed(i, "fan-out-parse-articles")
    /\ \E out \in SendEventOutcomes :
          /\ runs' = [runs EXCEPT ![i] = Settle(@, "fan-out-parse-articles", out)]
          /\ events' = IF out.ok
                       THEN events (+) SetToBag(
                              {Event("article/parse",
                                     [feedId |-> runs[i].data.feedId, articleId |-> id]) :
                                 id \in runs[i].memo["get-recent-articles"]})
                       ELSE events
    /\ UNCHANGED <<hub, requests, store, notifications>>

\* Promise.allSettled over one notifyUser per subscriber: a push that rejects makes
\* notifyUser remove the connection and return false, and the step returns all the same
NotifySubscribers(i) ==
    /\ AtParseFeed(i, "notify-subscribers")
    /\ LET m == runs[i].memo
           feedId == runs[i].data.feedId
           subscribers == Subscribers(subscriptions, feedId)
           data == {"feedId", "feedTitle", "newArticles", "totalItems"}
           left(u, rejecting) ==
               notifyUser(connections, 0, u, "feed.parsed", data, rejecting).connections
       IN  /\ notifications' = notifications (+) SetToBag(
                  {ParsedPush(u, feedId, Cardinality(m["insert-articles"]),
                              Len(m["parse-rss-xml"].items)) : u \in subscribers})
           /\ \E rejecting \in SUBSET {c.stream : c \in {d \in connections : d.userId \in subscribers}} :
                 connections' = {c \in connections : \A u \in subscribers : c \in left(u, rejecting)}
           /\ runs' = [runs EXCEPT ![i] =
                         Settle(@, "notify-subscribers",
                                Return([notifiedUsers |-> Cardinality(subscribers)]))]
    /\ UNCHANGED <<requests, store, events, streams, hubCall>>

ParseFeedReturn(i) ==
    /\ AtParseFeed(i, "return")
    /\ runs' = [runs EXCEPT ![i] =
                  ReturnedWith(@, ParseFeedResult(@.memo)) @@ ParseFeedCounts(@.memo)]
    /\ UNCHANGED <<hub, requests, store, events, notifications>>

----------------------------------------------------------------------------
(* parse-article.                                                          *)

ParseArticleAt(m) ==
    FirstOf(m, <<"fetch-article", "fetch-article-html", "parse-article-content",
                 "update-article-content", "notify-subscribers">>, "return")

AtParseArticle(i, step) ==
    /\ runs[i].fn = "parse-article"
    /\ runs[i].status = "running"
    /\ step \in ParseArticleAt(runs[i].memo)

\* "fetch-article"
FetchArticleStep(arts, articleId) ==
    IF articleId \notin DOMAIN arts THEN Throw("Error")
    ELSE IF arts[articleId].url = null THEN Throw("Error")
    ELSE Return(arts[articleId])

\* "fetch-article-html"
FetchArticleHtmlStep(resp) ==
    IF resp.status = 0 THEN Throw("TypeError")
    ELSE IF resp.status = 429 /\ resp.retryAfter # <<>> THEN ThrowRetryAfter(resp.retryAfter[1])
    ELSE IF ~Ok(resp) THEN Throw("Error")
    ELSE Return(resp.body)

\* "parse-article-content"
ParseArticleContentStep(html) ==
    IF ~html.readable THEN Throw("Error") ELSE Return(html.extract)

\* the column assigned the bound value whatever it is
Overwrite(value, column) == value

\* COALESCE(?, column)
Coalesce(value, column) == IF value # null THEN value ELSE column

\* the UPDATE of "update-article-content"
UpdateArticleContentRow(row, parsed) ==
    [row EXCEPT !.content = IF parsed.content # null THEN parsed.content ELSE "",
                !.summary = Coalesce(parsed.excerpt, @),
                !.author_name = Coalesce(parsed.byline, @),
                !.source_title = Coalesce(parsed.siteName, @),
                !.published_at = IF parsed.publishedTime # 0 THEN parsed.publishedTime ELSE @,
                !.fetch_status = "complete"]

FetchArticle(i) ==
    /\ AtParseArticle(i, "fetch-article")
    /\ runs' = [runs EXCEPT ![i] =
                  Settle(@, "fetch-article", FetchArticleStep(articles, @.data.articleId))]
    /\ UNCHANGED <<hub, requests, store, events, notifications>>

FetchArticleHtml(i) ==
    /\ AtParseArticle(i, "fetch-article-html")
    /\ \E resp \in PageResponses :
          /\ runs' = [runs EXCEPT ![i] =
                        Noted(Settle(@, "fetch-article-html", FetchArticleHtmlStep(resp)), resp)]
    /\ UNCHANGED <<hub, requests, store, events, notifications>>

ParseArticleContent(i) ==
    /\ AtParseArticle(i, "parse-article-content")
    /\ runs' = [runs EXCEPT ![i] =
                  Settle(@, "parse-article-content",
                         ParseArticleContentStep(@.memo["fetch-article-html"]))]
    /\ UNCHANGED <<hub, requests, store, events, notifications>>

UpdateArticleContent(i) ==
    /\ AtParseArticle(i, "update-article-content")
    /\ articles' = [articles EXCEPT ![runs[i].data.articleId] =
                       UpdateArticleContentRow(@, runs[i].memo["parse-article-content"])]
    /\ runs' = [runs EXCEPT ![i] = Settle(@, "update-article-content", Return(null))]
    /\ UNCHANGED <<hub, requests, feeds, subscriptions, pending_feeds, nextPendingId, events,
                   notifications>>

NotifyArticleSubscribers(i) ==
    /\ AtParseArticle(i, "notify-subscribers")
    /\ notifications' = notifications (+) SetToBag(
            {Push(u, "article.parsed", runs[i].data.feedId, null, 0, {}) :
               u \in Subscribers(subscriptions, runs[i].data.feedId)})
    /\ runs' = [runs EXCEPT ![i] = Settle(@, "notify-subscribers", Return(null))]
    /\ UNCHANGED <<hub, requests, store, events>>

ParseArticleReturn(i) ==
    /\ AtParseArticle(i, "return")
    /\ runs' = [runs EXCEPT ![i] = Completed(@)]
    /\ UNCHANGED <<hub, requests, store, events, notifications>>

\* the steps a run is at
\* the steps of each function in the order of their declaration; the steps of the
\* Promise.all over the candidates are in the order of the candidates
Declared(fn) ==
    CASE fn = "add-feed" ->
            <<"check-existing-feed", "mark-pending-completed", "notify-feed-exists",
              "fetch-url", "validate-rss", "create-feed-from-rss", "notify-feed-created",
              "trigger-feed-parse", "discover-rss-feeds", "mark-failed-no-feeds",
              "notify-failed", ValidateStep("p"), ValidateStep("f"), ValidateStep("g"),
              "mark-failed-invalid-feeds", "notify-failed-invalid",
              "check-discovered-feed-exists", "mark-pending-completed-discovered",
              "notify-feed-exists-discovered", "create-discovered-feed",
              "notify-discovered-feed-created", "trigger-discovered-feed-parse",
              "mark-ambiguous", "notify-ambiguous">>
      [] fn = "parse-feed" ->
            <<"validate-feed", "fetch-rss-feed", "update-last-fetched", "parse-rss-xml",
              "update-feed-metadata", "insert-articles", "get-recent-articles",
              "fan-out-parse-articles", "notify-subscribers">>
      [] fn = "parse-article" ->
            <<"fetch-article", "fetch-article-html", "parse-article-content",
              "update-article-content", "notify-subscribers">>

\* the place of a step in the declaration order of its function
Place(fn, step) == CHOOSE k \in DOMAIN Declared(fn) : Declared(fn)[k] = step

\* the steps that one Promise.all starts together
Parallel == {ValidateStep(url) : url \in Urls}

At(run) ==
    CASE run.fn = "add-feed" -> AddFeedAt(run.memo)
      [] run.fn = "parse-feed" -> ParseFeedAt(run.memo)
      [] run.fn = "parse-article" -> ParseArticleAt(run.memo)

----------------------------------------------------------------------------
Init ==
    /\ feeds = <<>>
    /\ subscriptions = <<>>
    /\ pending_feeds = NoMemo
    /\ nextPendingId = 1
    /\ articles = <<>>
    /\ events = EmptyBag
    /\ runs = <<>>
    /\ notifications = EmptyBag
    /\ requests = 0
    /\ connections = {}
    /\ streams = <<>>
    /\ hubCall = NoCall

\* the row of a feed after a refresh that parsed `title` and stored `slug`
Refreshed(row, title, slug) ==
    [row EXCEPT !.title = title, !.slug = slug, !.etag = "e1", !.last_fetched_at = 1,
                !.last_success_at = 1]

\* A store the pipeline has built: u1 asked for the feeds at "f" and "g", each was
\* created and refreshed once, and the extraction of their articles has not succeeded
\* yet.  The is_active flag of the second feed has been cleared (by an operator of
\* the store: no function of the pipeline writes the column).
InitPipeline ==
    /\ feeds = <<Refreshed(FeedRow("f", "atom", null), null, <<"f">>),
                 [Refreshed(FeedRow("g", "rss", "T"), "T", <<"t">>)
                     EXCEPT !.is_active = FALSE]>>
    /\ subscriptions = <<[user_id |-> "u1", feed_id |-> 1], [user_id |-> "u1", feed_id |-> 2],
                        [user_id |-> "u2", feed_id |-> 1]>>
    /\ pending_feeds = NoMemo
    /\ nextPendingId = 3
    /\ articles = <<ArticleRow(<<>>, 1, Item("t3")), ArticleRow(<<>>, 2, Item("t1")),
                    ArticleRow(<<>>, 2, Item("t2"))>>
    /\ events = EmptyBag
    /\ runs = <<>>
    /\ notifications = EmptyBag
    /\ requests = 0
    /\ connections = {Connection("u1", 1)}
    /\ streams = <<[userId |-> "u1", closed |-> FALSE]>>
    /\ hubCall = NoCall

AddFeedSteps ==
    \/ \E i \in DOMAIN runs : CheckExistingFeed(i)
    \/ \E i \in DOMAIN runs : MarkPendingCompleted(i)
    \/ \E i \in DOMAIN runs : NotifyFeedExists(i)
    \/ \E i \in DOMAIN runs : FetchUrl(i)
    \/ \E i \in DOMAIN runs : ValidateRss(i)
    \/ \E i \in DOMAIN runs : CreateFeedFromRss(i)
    \/ \E i \in DOMAIN runs : NotifyFeedCreated(i)
    \/ \E i \in DOMAIN runs : TriggerFeedParse(i)
    \/ \E i \in DOMAIN runs : DiscoverRssFeeds(i)
    \/ \E i \in DOMAIN runs : MarkFailedNoFeeds(i)
    \/ \E i \in DOMAIN runs : NotifyFailed(i)
    \/ \E i \in DOMAIN runs : ThrowNoFeeds(i)
    \/ \E i \in DOMAIN runs : MarkFailedInvalidFeeds(i)
    \/ \E i \in DOMAIN runs : NotifyFailedInvalid(i)
    \/ \E i \in DOMAIN runs : ThrowNoValidFeeds(i)
    \/ \E i \in DOMAIN runs : CheckDiscoveredFeedExists(i)
    \/ \E i \in DOMAIN runs : MarkPendingCompletedDiscovered(i)
    \/ \E i \in DOMAIN runs : NotifyFeedExistsDiscovered(i)
    \/ \E i \in DOMAIN runs : CreateDiscoveredFeed(i)
    \/ \E i \in DOMAIN runs : NotifyDiscoveredFeedCreated(i)
    \/ \E i \in DOMAIN runs : TriggerDiscoveredFeedParse(i)
    \/ \E i \in DOMAIN runs : MarkAmbiguous(i)
    \/ \E i \in DOMAIN runs : NotifyAmbiguous(i)
    \/ \E i \in DOMAIN runs : AddFeedReturn(i)
    \/ \E i \in DOMAIN runs, url \in Urls : ValidateDiscoveredFeeds(i, url)

ParseFeedSteps ==
    \/ \E i \in DOMAIN runs : ValidateFeed(i)
    \/ \E i \in DOMAIN runs : FetchRssFeed(i)
    \/ \E i \in DOMAIN runs : UpdateLastFetched(i)
    \/ \E i \in DOMAIN runs : ParseRssXml(i)
    \/ \E i \in DOMAIN runs : UpdateFeedMetadata(i)
    \/ \E i \in DOMAIN runs : InsertArticlesStep(i)
    \/ \E i \in DOMAIN runs : GetRecentArticles(i)
    \/ \E i \in DOMAIN runs : FanOutParseArticles(i)
    \/ \E i \in DOMAIN runs : NotifySubscribers(i)
    \/ \E i \in DOMAIN runs : ParseFeedReturn(i)

ParseArticleSteps ==
    \/ \E i \in DOMAIN runs : FetchArticle(i)
    \/ \E i \in DOMAIN runs : FetchArticleHtml(i)
    \/ \E i \in DOMAIN runs : ParseArticleContent(i)
    \/ \E i \in DOMAIN runs : UpdateArticleContent(i)
    \/ \E i \in DOMAIN runs : NotifyArticleSubscribers(i)
    \/ \E i \in DOMAIN runs : ParseArticleReturn(i)

AddFeedEvents == {e \in BagToSet(events) : e.name = "feed/add.requested"}

NextAddFeed ==
    \/ \E user \in Users, url \in RequestUrls : AddFeedSubscription(user, url)
    \/ \E user \in Users, url \in RequestUrls, old \in DOMAIN pending_feeds :
          ResubmitSubscription(user, url, old)
    \/ \E e \in AddFeedEvents : Start(e)
    \/ \E i \in DOMAIN runs : Reinvoke(i)
    \/ Tick
    \/ AddFeedSteps

Next ==
    \/ \E url \in RequestUrls : AddFeedSubscription("u1", url)
    \/ \E url \in RequestUrls, old \in DOMAIN pending_feeds : ResubmitSubscription("u1", url, old)
    \/ \E feedId \in 1..(Len(feeds) + 1) : ParseRequested(feedId)
    \/ \E articleId \in DOMAIN articles : RequestArticleParse("u1", articleId)
    \/ \E e \in BagToSet(events) : Start(e)
    \/ \E i \in DOMAIN runs : Reinvoke(i)
    \/ Tick
    \/ AddFeedSteps
    \/ ParseFeedSteps
    \/ ParseArticleSteps

Spec == InitPipeline /\ [][Next]_vars

SpecAddFeed == Init /\ [][NextAddFeed]_vars

\* Extraction on request, under the scheduling of the executor: an event that can
\* start is started, a run that waits is re-invoked when its delay has passed, and a
\* run that is invoked executes its next step.
ArticleParseEvents == {e \in BagToSet(events) : e.name = "article/parse"}

NextQueue ==
    \/ \E articleId \in DOMAIN articles : RequestArticleParse("u1", articleId)
    \/ \E e \in ArticleParseEvents : Start(e)
    \/ \E i \in DOMAIN runs : Reinvoke(i)
    \/ Tick
    \/ ParseArticleSteps

Fairness ==
    /\ WF_vars(\E e \in ArticleParseEvents : Start(e))
    /\ WF_vars(\E i \in DOMAIN runs : Reinvoke(i))
    /\ WF_vars(Tick)
    /\ WF_vars(ParseArticleSteps)

SpecQueue == InitPipeline /\ [][NextQueue]_vars /\ Fairness


SpecHub == Init /\ [][NextHub]_vars

----------------------------------------------------------------------------
(* The persist step over every stored row and every extract: an extraction *)
(* run that has fetched the page of the first article, whose row holds any *)
(* combination of known and unknown columns (the feed's item, or an        *)
(* earlier extraction, wrote them), and whose page yields any combination  *)
(* of extracted and missing fields.                                        *)

StoredValues == {null, "s"}

ExtractedValues == {null, "x"}

\* what Readability returns for the readable pages
Extracts ==
    {[content |-> c, excerpt |-> e, byline |-> b, siteName |-> s, publishedTime |-> t] :
        c \in ExtractedValues, e \in ExtractedValues, b \in ExtractedValues,
        s \in ExtractedValues, t \in {0, 4}}

\* the rows the server function lets an extraction be requested for
StoredArticles ==
    {[ArticleRow(<<>>, 1, Item("t3")) EXCEPT !.summary = s, !.author_name = a,
                                             !.source_title = t, !.published_at = p,
                                             !.fetch_status = f] :
        s \in StoredValues, a \in StoredValues, t \in StoredValues, p \in {0, 3},
        f \in {"none", "failed"}}

InitExtract ==
    /\ feeds = <<Refreshed(FeedRow("f", "atom", null), null, <<"f">>)>>
    /\ subscriptions = <<[user_id |-> "u1", feed_id |-> 1]>>
    /\ pending_feeds = NoMemo
    /\ nextPendingId = 1
    /\ \E row \in StoredArticles, parsed \in Extracts :
          /\ articles = <<row>>
          /\ runs = <<[NewRun("parse-article", [feedId |-> 1, articleId |-> 1])
                         EXCEPT !.memo = ("fetch-article" :> row)
                                         @@ ("fetch-article-html" :>
                                               [kind |-> "page", readable |-> TRUE,
                                                extract |-> parsed])]>>
    /\ events = EmptyBag
    /\ notifications = EmptyBag
    /\ requests = 1
    /\ connections = {}
    /\ streams = <<>>
    /\ hubCall = NoCall

NextExtract ==
    \/ \E i \in DOMAIN runs : ParseArticleContent(i)
    \/ \E i \in DOMAIN runs : UpdateArticleContent(i)
    \/ \E i \in DOMAIN runs : NotifyArticleSubscribers(i)
    \/ \E i \in DOMAIN runs : ParseArticleReturn(i)

SpecExtract == InitExtract /\ [][NextExtract]_vars

----------------------------------------------------------------------------
(* schedule-feed-updates: the sweep the cron trigger starts.  Time is in     *)
(* minutes; a ttl is <<>> when the column is NULL and <<n>> for n minutes; *)
(* last_fetched_at is 0 when the column is NULL.                           *)

Ttls == {<<>>, <<30>>, <<120>>}

FetchedAt == {0, 40, 100}

Clock == {100, 130, 160}

DefaultTtl == 60

\* the rows of feeds the sweep reads
SweptFeeds(url) ==
    {[ttl |-> t, last_fetched_at |-> at, is_active |-> a] @@ FeedRow(url, "rss", "T") :
        t \in Ttls, at \in FetchedAt, a \in BOOLEAN}

\* the WHERE clause of "query-active-feeds" with every feed given the default ttl
DueByDefaultTtl(feed, now) ==
    /\ feed.is_active
    /\ \/ feed.last_fetched_at = 0
       \/ feed.last_fetched_at + DefaultTtl <= now

\* the WHERE clause of "query-active-feeds", datetime('now') being `now`
Due(feed, now) ==
    /\ feed.is_active
    /\ \/ feed.last_fetched_at = 0
       \/ feed.ttl # <<>> /\ feed.last_fetched_at + feed.ttl[1] <= now
       \/ feed.ttl = <<>> /\ feed.last_fetched_at + DefaultTtl <= now

\* "query-active-feeds"
QueryActiveFeedsStep(fs, now) == Return({id \in DOMAIN fs : Due(fs[id], now)})

ScheduleFeedUpdatesAt(m) ==
    FirstOf(m, <<"query-active-feeds", "schedule-parse-feed">>, "return")

AtScheduleFeedUpdates(i, step) ==
    /\ runs[i].fn = "schedule-feed-updates"
    /\ runs[i].status = "running"
    /\ step \in ScheduleFeedUpdatesAt(runs[i].memo)

\* the cron trigger starts a run; the function declares no concurrency limit
CronFires ==
    /\ Len(runs) < MaxRuns
    /\ runs' = Append(runs, NewRun("schedule-feed-updates", [cron |-> "0 0 * * *"]))
    /\ UNCHANGED <<hub, requests, store, events, notifications>>

QueryActiveFeeds(i) ==
    /\ AtScheduleFeedUpdates(i, "query-active-feeds")
    /\ \E now \in Clock :
          runs' = [runs EXCEPT ![i] =
                     Settle([@ EXCEPT !.clock = now], "query-active-feeds",
                            QueryActiveFeedsStep(feeds, now))]
    /\ UNCHANGED <<hub, requests, store, events, notifications>>

\* step.sendEvent with one feed/parse.requested per id
ScheduleParseFeed(i) ==
    /\ AtScheduleFeedUpdates(i, "schedule-parse-feed")
    /\ \E out \in SendEventOutcomes :
          /\ runs' = [runs EXCEPT ![i] = Settle(@, "schedule-parse-feed", out)]
          /\ events' = IF out.ok
                       THEN events (+) SetToBag(
                               {Event("feed/parse.requested", [feedId |-> id]) :
                                  id \in runs[i].memo["query-active-feeds"]})
                       ELSE events
    /\ UNCHANGED <<hub, requests, store, notifications>>

ScheduleFeedUpdatesReturn(i) ==
    /\ AtScheduleFeedUpdates(i, "return")
    /\ runs' = [runs EXCEPT ![i] = Completed(@)]
    /\ UNCHANGED <<hub, requests, store, events, notifications>>

\* two feeds, each with any ttl, any time of last fetch and either is_active
InitSweep ==
    /\ \E f \in SweptFeeds("f"), g \in SweptFeeds("g") : feeds = <<f, g>>
    /\ subscriptions = <<>>
    /\ pending_feeds = NoMemo
    /\ nextPendingId = 1
    /\ articles = <<>>
    /\ events = EmptyBag
    /\ runs = <<>>
    /\ notifications = EmptyBag
    /\ requests = 0
    /\ connections = {}
    /\ streams = <<>>
    /\ hubCall = NoCall

NextSweep ==
    \/ CronFires
    \/ \E i \in DOMAIN runs : QueryActiveFeeds(i)
    \/ \E i \in DOMAIN runs : ScheduleParseFeed(i)
    \/ \E i \in DOMAIN runs : ScheduleFeedUpdatesReturn(i)
    \/ \E i \in DOMAIN runs : Reinvoke(i)

SpecSweep == InitSweep /\ [][NextSweep]_vars

----------------------------------------------------------------------------
(* The slugs over titles, URLs and occupied slugs of every shape: a refresh *)
(* that has parsed the document of the first feed, about to store the      *)
(* feed's metadata and then its two items.  The other rows of feeds, and   *)
(* the rows of articles, hold the first candidates of the uniqueness loop  *)
(* for the suffixes of one of the sets of Occupied.                        *)

SlugTitles ==
    {null, "", "   ", "!!!", "Hacker News", " Test -- Blog! ", "a x 100", "a x 99, b x 6"}

SlugFeedUrls == {"https://www.ex.co/feed", "file:///feed", "not a url"}

SlugArticleUrls == {null, "https://ex.co/posts/My_Post.v2.html", "https://ex.co/", "not a url"}

SlugItemTitles == {null, "", "!!!", "a x 100"}

\* the suffixes whose candidates are held by other rows
Occupied == {{}, {0}, {1}, {0, 1}, {0, 2}, 0..9, 0..10}

\* the suffixes whose candidates are held by articles of the feed
OccupiedInFeed == {{}, {0}, {0, 2}, 0..9}

\* the elements of a set of numbers in increasing order
RECURSIVE Sorted(_)
Sorted(set) ==
    IF set = {} THEN <<>>
    ELSE LET least == CHOOSE n \in set : \A k \in set : n <= k
         IN  <<least>> \o Sorted(set \ {least})

OccupantGuids == <<"o0", "o1", "o2", "o3", "o4", "o5", "o6", "o7", "o8", "o9", "o10">>

\* the two entries of the parsed document: the same title and link, two guids
SlugItems(title, link) ==
    <<[guid |-> "g1", link |-> link, title |-> title, pubDate |-> 2],
      [guid |-> "g2", link |-> link, title |-> title, pubDate |-> 1]>>

InitSlug ==
    /\ \E title \in SlugTitles, url \in SlugFeedUrls, taken \in Occupied,
          itemTitle \in SlugItemTitles, link \in SlugArticleUrls,
          takenInFeed \in OccupiedInFeed :
          LET row == FeedRow(url, "rss", null)
              doc == [kind |-> "feed", title |-> title, link |-> null,
                      items |-> SlugItems(itemTitle, link), alts |-> {}, anchors |-> {}]
              feedBase == FeedBaseSlug(title, url)
              articleBase ==
                 ArticleBaseSlug(IF itemTitle # null THEN itemTitle ELSE "Untitled", link)
              others == Sorted(taken)
              inFeed == Sorted(takenInFeed)
          IN  /\ feeds = <<row>> \o
                         [k \in DOMAIN others |->
                             [FeedRow(OccupantGuids[k], "rss", null)
                                 EXCEPT !.slug = Suffixed(feedBase, others[k])]]
              /\ articles =
                    <<[ArticleRow(<<>>, 2, Item("t1")) EXCEPT !.slug = articleBase]>> \o
                    [k \in DOMAIN inFeed |->
                        [ArticleRow(<<>>, 1, Item("t1"))
                            EXCEPT !.guid = OccupantGuids[k],
                                   !.slug = Suffixed(articleBase, inFeed[k])]]
              /\ runs = <<[NewRun("parse-feed", [feedId |-> 1])
                             EXCEPT !.memo = ("validate-feed" :> row)
                                             @@ ("fetch-rss-feed" :>
                                                   [status |-> 200, xml |-> doc, etag |-> "e1"])
                                             @@ ("parse-rss-xml" :> doc)]>>
    /\ subscriptions = <<>>
    /\ pending_feeds = NoMemo
    /\ nextPendingId = 1
    /\ events = EmptyBag
    /\ notifications = EmptyBag
    /\ requests = 1
    /\ connections = {}
    /\ streams = <<>>
    /\ hubCall = NoCall

NextSlug ==
    \/ \E i \in DOMAIN runs : UpdateFeedMetadata(i)
    \/ \E i \in DOMAIN runs : InsertArticlesStep(i)

SpecSlug == InitSlug /\ [][NextSlug]_vars

----------------------------------------------------------------------------
(* "insert-articles" over the documents of two entries, each with or       *)
(* without a guid, a link and a title ("": the element is there and        *)
(* empty), into a feed that has no articles.                               *)

KeyGuids == {null, "", "l1", "unknown"}
KeyLinks == {null, "l1", "l2"}
KeyTitles == {null, "t1", "unknown"}

KeyItems ==
    {[guid |-> g, link |-> l, title |-> t, pubDate |-> 0] :
        g \in KeyGuids, l \in KeyLinks, t \in KeyTitles}

InitKey ==
    /\ \E first \in KeyItems, second \in KeyItems :
          LET row == Refreshed(FeedRow("f", "rss", "T"), "T", <<"t">>)
              doc == [kind |-> "feed", title |-> "T", link |-> null,
                      items |-> <<first, second>>, alts |-> {}, anchors |-> {}]
          IN  /\ feeds = <<row>>
              /\ runs = <<[NewRun("parse-feed", [feedId |-> 1])
                             EXCEPT !.memo = ("validate-feed" :> row)
                                             @@ ("fetch-rss-feed" :>
                                                   [status |-> 200, xml |-> doc, etag |-> "e1"])
                                             @@ ("parse-rss-xml" :> doc)
                                             @@ ("update-feed-metadata" :> null)]>>
    /\ articles = <<>>
    /\ subscriptions = <<>>
    /\ pending_feeds = NoMemo
    /\ nextPendingId = 1
    /\ events = EmptyBag
    /\ notifications = EmptyBag
    /\ requests = 1
    /\ connections = {}
    /\ streams = <<>>
    /\ hubCall = NoCall

NextKey == \E i \in DOMAIN runs : InsertArticlesStep(i)

SpecKey == InitKey /\ [][NextKey]_vars

----------------------------------------------------------------------------
(* add-feed with its runs racing: the executor counts against the limit of *)
(* 1 only the steps that are executing, so a run starts while another is   *)
(* between two of its steps, and their steps interleave.  The first        *)
(* request is u1's and the second is u2's.  A run whose step fails waits   *)
(* for its re-invocation and is followed no further here.                  *)

StartRacing(e) ==
    /\ BagIn(e, events)
    /\ Len(runs) < MaxRuns
    /\ runs' = Append(runs, NewRun(FunctionOf(e.name), e.data))
    /\ events' = events (-) SetToBag({e})
    /\ UNCHANGED <<hub, requests, store, notifications>>

NextRace ==
    \/ \E url \in RequestUrls : requests = 0 /\ AddFeedSubscription("u1", url)
    \/ \E url \in RequestUrls : requests = 1 /\ AddFeedSubscription("u2", url)
    \/ \E e \in AddFeedEvents : StartRacing(e)
    \/ AddFeedSteps

SpecRace == Init /\ [][NextRace]_vars

----------------------------------------------------------------------------
(* add-feed with its store-writing steps interrupted.  The statements of   *)
(* such a step are executed one by one, in no transaction: the step can    *)
(* fail after any of them (the statement that follows throws, or the       *)
(* process stops before the step's result is reported), the executor       *)
(* records no result, and the re-invocation executes the step from its     *)
(* first statement.                                                        *)

StoreOf == [feeds |-> feeds, pending_feeds |-> pending_feeds, subscriptions |-> subscriptions]

\* the first k statements of "mark-pending-completed": DELETE FROM pending_feeds,
\* INSERT OR IGNORE INTO subscriptions
MarkCompletedStatements(st, feedId, user, pendingId, k) ==
    [feeds |-> st.feeds,
     pending_feeds |-> IF k >= 1 THEN DeletePending(st.pending_feeds, pendingId)
                       ELSE st.pending_feeds,
     subscriptions |-> IF k >= 2 THEN InsertOrIgnoreSubscription(st.subscriptions, user, feedId)
                       ELSE st.subscriptions]

\* the statements of a creating step with the subscription inserted by a plain INSERT
CreateFeedStatementsPlainInsert(st, row, user, pendingId, k) ==
    LET fs == IF k >= 1 THEN InsertOrIgnoreFeed(st.feeds, row) ELSE st.feeds
    IN  [feeds |-> fs,
         pending_feeds |-> IF k >= 2 THEN DeletePending(st.pending_feeds, pendingId)
                           ELSE st.pending_feeds,
         subscriptions |-> IF k >= 3
                           THEN InsertSubscription(st.subscriptions, user, FeedIdByUrl(fs, row.url))
                           ELSE st.subscriptions]

\* the first k statements of "create-feed-from-rss" and of "create-discovered-feed":
\* INSERT OR IGNORE INTO feeds (and SELECT id), DELETE FROM pending_feeds,
\* INSERT OR IGNORE INTO subscriptions
CreateFeedStatements(st, row, user, pendingId, k) ==
    LET fs == IF k >= 1 THEN InsertOrIgnoreFeed(st.feeds, row) ELSE st.feeds
    IN  [feeds |-> fs,
         pending_feeds |-> IF k >= 2 THEN DeletePending(st.pending_feeds, pendingId)
                           ELSE st.pending_feeds,
         subscriptions |-> IF k >= 3
                           THEN InsertOrIgnoreSubscription(st.subscriptions, user,
                                                           FeedIdByUrl(fs, row.url))
                           ELSE st.subscriptions]

\* the row that a creating step of the run inserts
CreatedRow(run, step) ==
    IF step = "create-feed-from-rss"
    THEN FeedRow(run.data.feedUrl, FeedType(run.memo["validate-rss"].parsed),
                 run.memo["validate-rss"].parsed.title)
    ELSE FeedRow(DiscoveredUrl(run.memo), "rss", null)

\* the run after a step that failed part-way
Interrupt(run, step) ==
    LET thrown == Settle(run, step, Throw("Error"))
    IN  IF InFlight(thrown) THEN [thrown EXCEPT !.interrupted = @ \cup {step}] ELSE thrown

MarkPendingCompletedInterrupted(i, k) ==
    /\ AtAddFeed(i, "mark-pending-completed")
    /\ LET st == MarkCompletedStatements(StoreOf, runs[i].memo["check-existing-feed"],
                                         runs[i].data.requestedBy, runs[i].data.pendingId, k)
       IN  /\ pending_feeds' = st.pending_feeds
           /\ subscriptions' = st.subscriptions
    /\ runs' = [runs EXCEPT ![i] = Interrupt(@, "mark-pending-completed")]
    /\ UNCHANGED <<hub, requests, feeds, nextPendingId, articles, events, notifications>>

CreateFeedInterrupted(i, step, k) ==
    /\ AtAddFeed(i, step)
    /\ LET st == CreateFeedStatements(StoreOf, CreatedRow(runs[i], step),
                                      runs[i].data.requestedBy, runs[i].data.pendingId, k)
       IN  /\ feeds' = st.feeds
           /\ pending_feeds' = st.pending_feeds
           /\ subscriptions' = st.subscriptions
    /\ runs' = [runs EXCEPT ![i] = Interrupt(@, step)]
    /\ UNCHANGED <<hub, requests, nextPendingId, articles, events, notifications>>

NextCrash ==
    \/ \E url \in RequestUrls : AddFeedSubscription("u1", url)
    \/ \E e \in AddFeedEvents : Start(e)
    \/ \E i \in DOMAIN runs : Reinvoke(i)
    \/ Tick
    \/ AddFeedSteps
    \/ \E i \in DOMAIN runs, k \in 0..2 : MarkPendingCompletedInterrupted(i, k)
    \/ \E i \in DOMAIN runs, k \in 0..3 : CreateFeedInterrupted(i, "create-feed-from-rss", k)
    \/ \E i \in DOMAIN runs, k \in 0..3 : CreateFeedInterrupted(i, "create-discovered-feed", k)

SpecCrash == Init /\ [][NextCrash]_vars

----------------------------------------------------------------------------
(* Properties.                                                             *)

\* C1: a step result, once recorded, is kept and replayed by every later invocation
\* of the job instance: no recorded result is lost or changed, every write to feeds,
\* subscriptions or the notification log records the result of a step that had
\* none, and a request is pushed feed.added at most once.
StepResultsAreReplayed ==
    [][ /\ \A i \in DOMAIN runs :
              InFlight(runs[i]) /\ InFlight(runs'[i]) =>
                 \A s \in DOMAIN runs[i].memo :
                    s \in DOMAIN runs'[i].memo /\ runs'[i].memo[s] = runs[i].memo[s]
        /\ (feeds' # feeds \/ subscriptions' # subscriptions \/ notifications' # notifications)
              => \E i \in DOMAIN runs :
                    /\ InFlight(runs[i]) /\ InFlight(runs'[i])
                    /\ DOMAIN runs'[i].memo # DOMAIN runs[i].memo
        /\ \A a, b \in BagToSet(notifications') :
              a.event = "feed.added" /\ b.event = "feed.added" /\ a.pendingId = b.pendingId
                 => a = b /\ CopiesIn(a, notifications') = 1
      ]_vars

\* an add-feed run re-invoked after "trigger-feed-parse" failed, with the results of
\* "create-feed-from-rss" and "notify-feed-created" recorded
RetriedAfterFeedCreated ==
    \E i \in DOMAIN runs :
       /\ runs[i].fn = "add-feed"
       /\ runs[i].status = "running"
       /\ runs[i].resumed
       /\ runs[i].failedStep = "trigger-feed-parse"
       /\ Has(runs[i].memo, "create-feed-from-rss")
       /\ Has(runs[i].memo, "notify-feed-created")

\* C2: no two article rows have the same (feed_id, guid), and a run that has passed
\* "insert-articles" is still in flight and has left a row for the key of every entry
\* of its parsed feed (an entry whose key was there is skipped; the entries after it
\* are inserted).
ArticlesAreDeduplicated ==
    /\ \A a, b \in DOMAIN articles :
          articles[a].feed_id = articles[b].feed_id /\ articles[a].guid = articles[b].guid
             => a = b
    /\ \A i \in DOMAIN runs :
          (runs[i].fn = "parse-feed" /\ InFlight(runs[i]) /\ Has(runs[i].memo, "insert-articles"))
             => LET items == runs[i].memo["parse-rss-xml"].items
                IN  \A k \in DOMAIN items :
                       \E a \in DOMAIN articles :
                          /\ articles[a].feed_id = runs[i].data.feedId
                          /\ articles[a].guid = DedupKey(items[k])

\* two refreshes of one feed are in flight, and one of them has skipped an entry that
\* was known and inserted the entry after it
KnownEntrySkipped ==
    \E i, j \in DOMAIN runs :
       /\ i # j
       /\ runs[i].fn = "parse-feed" /\ InFlight(runs[i])
       /\ runs[j].fn = "parse-feed" /\ InFlight(runs[j])
       /\ runs[i].data.feedId = runs[j].data.feedId
       /\ Has(runs[i].memo, "insert-articles")
       /\ runs[i].memo["insert-articles"] # {}
       /\ Cardinality(runs[i].memo["insert-articles"]) < Len(runs[i].memo["parse-rss-xml"].items)

ValidationFailureIsFatal ==
    \A i \in DOMAIN runs :
       (runs[i].fn = "parse-feed" /\ InFlight(runs[i]))
          => /\ runs[i].failedStep # "validate-feed"
             /\ runs[i].retries > 0 => Has(runs[i].memo, "validate-feed")

\* C6: no job instance is scheduled for a re-invocation because its fetch step was
\* answered with a status that is not 2xx (nor 304 in a refresh, nor 429 with a
\* Retry-After header).
BadStatusIsFatal ==
    \A i \in DOMAIN runs :
       InFlight(runs[i]) =>
          ~(/\ runs[i].failedStep \in {"fetch-rss-feed", "fetch-article-html", "fetch-url"}
            /\ runs[i].error = "Error")

\* C7: a refresh whose body does not parse is never scheduled for a re-invocation, and
\* a refresh that has written feed metadata or articles has parsed its body.
ParseFailureIsFatal ==
    \A i \in DOMAIN runs :
       (runs[i].fn = "parse-feed" /\ InFlight(runs[i]))
          => /\ runs[i].failedStep # "parse-rss-xml"
             /\ (Has(runs[i].memo, "update-feed-metadata") \/ Has(runs[i].memo, "insert-articles"))
                   => Has(runs[i].memo, "parse-rss-xml")

\* C8: an instance whose fetch was answered 429 with Retry-After n waits as for a
\* RetryAfterError at that fetch step, is ended by it only when no retry is left, is
\* re-invoked no earlier than n seconds later, and resumes at that step.
RateLimitIsHonoured ==
    [][\A i \in DOMAIN runs :
          /\ (runs[i].status = "running" /\ runs'[i].status = "failed"
                /\ runs'[i].error = "RetryAfterError") => runs[i].retries = 3
          /\ InFlight(runs'[i]) =>
                /\ ~runs'[i].early
                /\ runs'[i].asked > 0 =>
                      /\ runs'[i].status = "sleeping"
                      /\ runs'[i].error = "RetryAfterError"
                      /\ runs'[i].sleep + runs'[i].waited >= runs'[i].asked
                /\ (runs'[i].resumed /\ runs'[i].error = "RetryAfterError") =>
                      /\ runs'[i].failedStep \in At(runs'[i])
                      /\ runs'[i].failedStep \in
                            {"fetch-rss-feed", "fetch-article-html", "fetch-url"}
                            \cup {ValidateStep(u) : u \in Urls}
      ]_vars

\* a refresh is back at its fetch step after the wait a 429 asked for
ResumedAfterRateLimit ==
    \E i \in DOMAIN runs :
       /\ runs[i].fn = "parse-feed"
       /\ runs[i].status = "running"
       /\ runs[i].resumed
       /\ runs[i].error = "RetryAfterError"
       /\ runs[i].failedStep = "fetch-rss-feed"

\* C9: an add-feed instance that has failed has left its pending row (where the row is
\* still there) with status 'failed' and an error message, and the requester has
\* been pushed feed.add.failed for it.
FailedRequestIsReported ==
    \A i \in DOMAIN runs :
       (runs[i].fn = "add-feed" /\ runs[i].status = "failed")
          => /\ runs[i].data.pendingId \in DOMAIN pending_feeds =>
                   /\ pending_feeds[runs[i].data.pendingId].status = "failed"
                   /\ pending_feeds[runs[i].data.pendingId].error_message # null
             /\ \E n \in BagToSet(notifications) :
                   /\ n.event = "feed.add.failed"
                   /\ n.user = runs[i].data.requestedBy
                   /\ n.pendingId = runs[i].data.pendingId

\* C10: the pending row of an add-feed instance that has ended is not 'pending': it
\* is 'failed', or 'ambiguous' with its candidates stored, or it is deleted; it is
\* deleted when the request resolved to a feed, and the requester is then subscribed
\* to that feed.
EndedRequestIsNotPending ==
    \A i \in DOMAIN runs :
       (runs[i].fn = "add-feed" /\ ~InFlight(runs[i]))
          => LET pid == runs[i].data.pendingId
             IN  /\ pid \in DOMAIN pending_feeds =>
                       /\ pending_feeds[pid].status \in {"failed", "ambiguous"}
                       /\ pending_feeds[pid].status = "ambiguous"
                             => pending_feeds[pid].candidate_urls # {}
                 /\ \A n \in BagToSet(notifications) :
                       (n.event = "feed.added" /\ n.pendingId = pid)
                          => /\ pid \notin DOMAIN pending_feeds
                             /\ \E k \in DOMAIN subscriptions :
                                   /\ subscriptions[k].user_id = runs[i].data.requestedBy
                                   /\ subscriptions[k].feed_id = n.feedId

\* C11: the candidates of an add-feed request are the URLs that the alternate links
\* and the feed anchors of its page resolve to (so a page with one alternate link to
\* another URL has that URL as its only candidate); a request with one valid
\* candidate is never marked ambiguous; a request marked ambiguous has two valid
\* candidates or more, and its row stores exactly the valid candidates.
DiscoveredLinkIsFollowed ==
    \A i \in DOMAIN runs :
       (runs[i].fn = "add-feed" /\ InFlight(runs[i]) /\ Has(runs[i].memo, "discover-rss-feeds"))
          => LET m == runs[i].memo
                 page == m["fetch-url"].text
                 pid == runs[i].data.pendingId
             IN  /\ m["discover-rss-feeds"] = page.alts \cup page.anchors
                 /\ Has(m, "mark-ambiguous") =>
                       /\ Cardinality(ValidatedFeeds(m)) >= 2
                       /\ pid \in DOMAIN pending_feeds =>
                             /\ pending_feeds[pid].status = "ambiguous"
                             /\ pending_feeds[pid].candidate_urls = ValidatedFeeds(m)

\* C12: the article/parse events that the step "fan-out-parse-articles" of a refresh
\* sends are at most 20, are all for articles that this refresh inserted, and leave
\* out an inserted article only for 20 inserted articles published no earlier.
FanOutIsOfNewArticles ==
    [][\A i \in DOMAIN runs :
          (/\ runs[i].fn = "parse-feed" /\ InFlight(runs[i]) /\ InFlight(runs'[i])
           /\ ~Has(runs[i].memo, "fan-out-parse-articles")
           /\ Has(runs'[i].memo, "fan-out-parse-articles"))
             => LET new == runs[i].memo["insert-articles"]
                    sent == {e \in BagToSet(events') : CopiesIn(e, events') > CopiesIn(e, events)}
                    ids == {e.data.articleId : e \in sent}
                IN  /\ \A e \in sent : e.name = "article/parse" /\ e.data.feedId = runs[i].data.feedId
                    /\ Cardinality(ids) <= RecentLimit
                    /\ ids \subseteq new
                    /\ \A a \in new \ ids :
                          /\ Cardinality(ids) = RecentLimit
                          /\ \A b \in ids : articles[b].published_at >= articles[a].published_at
      ]_vars

\* C13: the registry holds at most one connection per user, and a new connection of
\* a user is the one registered for the user afterwards, while the connection that
\* was registered for the user before is closed and is pushed to by no later call.
NewConnectionSupersedes ==
    [][ /\ \A a, b \in connections' : a.userId = b.userId => a = b
        /\ Len(streams') > Len(streams) =>
              LET new == Len(streams')
                  userId == streams'[new].userId
              IN  /\ ConnectionsOf(connections', userId) = {Connection(userId, new)}
                  /\ \A c \in ConnectionsOf(connections, userId) : streams'[c.stream].closed
        /\ hubCall'.n > hubCall.n =>
              hubCall'.pushed \subseteq {c.stream : c \in connections}
      ]_vars

\* C14: a call of notifyUser does not throw; it returns true only when it pushed to
\* the user's connection and the push resolved, and the registry is then unchanged;
\* it returns false with the registry unchanged when the payload fails the schema of
\* the event or the user has no connection; when the push rejects it returns false
\* and the user has no connection any more.
NotifyUserNeverThrows ==
    [][ (hubCall'.n > hubCall.n /\ hubCall'.op = "notifyUser") =>
           LET call == hubCall'
               mine == ConnectionsOf(connections, call.userId)
           IN  /\ ~call.threw
               /\ call.returned =>
                     /\ mine # {} /\ call.pushed = {c.stream : c \in mine}
                     /\ call.rejected = {}
                     /\ connections' = connections
               /\ (mine = {} \/ (call.event \in Schemas /\ ~Validates(call.event, call.data))) =>
                     /\ ~call.returned /\ call.pushed = {} /\ connections' = connections
               /\ call.rejected # {} =>
                     /\ ~call.returned
                     /\ connections' = removeConnection(connections, call.userId)
      ]_vars

StepsRunInDeclarationOrder ==
    [][\A i \in DOMAIN runs :
          (InFlight(runs[i]) /\ InFlight(runs'[i])) =>
             LET done == DOMAIN runs[i].memo
                 new == DOMAIN runs'[i].memo \ done
             IN  /\ Cardinality(new) <= 1
                 /\ \A s \in new, t \in done : Place(runs[i].fn, t) < Place(runs[i].fn, s)
      ]_vars

\* C16 (amended): as above, except that the validation steps of the candidates, which
\* one Promise.all starts together, are recorded in any order among themselves; they
\* are recorded after every step declared before them and before every step after.
StepsRunInOrderButParallel ==
    [][\A i \in DOMAIN runs :
          (InFlight(runs[i]) /\ InFlight(runs'[i])) =>
             LET done == DOMAIN runs[i].memo
                 new == DOMAIN runs'[i].memo \ done
             IN  /\ Cardinality(new) <= 1
                 /\ \A s \in new, t \in done :
                       \/ Place(runs[i].fn, t) < Place(runs[i].fn, s)
                       \/ {s, t} \subseteq Parallel
      ]_vars

\* a candidate has been validated before a candidate that comes before it
ValidatedOutOfOrder ==
    \E i \in DOMAIN runs :
       /\ runs[i].fn = "add-feed" /\ InFlight(runs[i])
       /\ Has(runs[i].memo, ValidateStep("g"))
       /\ Has(runs[i].memo, "discover-rss-feeds")
       /\ "f" \in runs[i].memo["discover-rss-feeds"]
       /\ ~Has(runs[i].memo, ValidateStep("f"))

ExtractionKeepsKnownFields ==
    [][\A i \in DOMAIN runs :
          (/\ i \in DOMAIN runs'
           /\ runs[i].fn = "parse-article"
           /\ InFlight(runs[i]) /\ InFlight(runs'[i])
           /\ ~Has(runs[i].memo, "update-article-content")
           /\ Has(runs'[i].memo, "update-article-content"))
          => LET id == runs[i].data.articleId
                 parsed == runs[i].memo["parse-article-content"]
                 old == articles[id]
                 new == articles'[id]
             IN  /\ DOMAIN articles' = DOMAIN articles
                 /\ \A other \in DOMAIN articles \ {id} : articles'[other] = articles[other]
                 /\ new.summary = IF parsed.excerpt = null THEN old.summary ELSE parsed.excerpt
                 /\ new.author_name = IF parsed.byline = null THEN old.author_name
                                      ELSE parsed.byline
                 /\ new.source_title = IF parsed.siteName = null THEN old.source_title
                                       ELSE parsed.siteName
                 /\ new.published_at = IF parsed.publishedTime = 0 THEN old.published_at
                                       ELSE parsed.publishedTime
                 /\ new.content = IF parsed.content = null THEN "" ELSE parsed.content
                 /\ new.fetch_status = "complete"
                 /\ \A column \in {"feed_id", "guid", "url", "slug", "title"} :
                       new[column] = old[column]]_vars

\* an extraction has persisted an extract with an excerpt and a site name but with no
\* byline, no publish time and no content, over a row whose four columns were known:
\* the author and the publish time are the stored ones, the summary and the source
\* title are the extracted ones, the content is the empty string
KeptAndReplacedSideBySide ==
    \E i \in DOMAIN runs :
       /\ runs[i].fn = "parse-article"
       /\ Has(runs[i].memo, "update-article-content")
       /\ LET parsed == runs[i].memo["parse-article-content"]
              stored == runs[i].memo["fetch-article"]
              row == articles[runs[i].data.articleId]
          IN  /\ stored.summary = "s" /\ stored.author_name = "s"
              /\ stored.source_title = "s" /\ stored.published_at = 3
              /\ parsed.excerpt = "x" /\ parsed.siteName = "x"
              /\ parsed.byline = null /\ parsed.publishedTime = 0 /\ parsed.content = null
              /\ row.summary = "x" /\ row.source_title = "x"
              /\ row.author_name = "s" /\ row.published_at = 3
              /\ row.content = "" /\ row.fetch_status = "complete"

\* C20: an article's fetch_status only ever changes from "none" to "scheduled" and
\* from "scheduled" to "complete" or to "failed": an inserted article has "none", an
\* article with an article/parse event queued or an extraction in flight has
\* "scheduled", and an article whose extraction has just failed for good has "failed".
FetchStatusFollowsItsStateMachine ==
    [][/\ \A id \in DOMAIN articles' :
             IF id \in DOMAIN articles
             THEN \/ articles'[id].fetch_status = articles[id].fetch_status
                  \/ <<articles[id].fetch_status, articles'[id].fetch_status>>
                        \in {<<"none", "scheduled">>, <<"scheduled", "complete">>,
                             <<"scheduled", "failed">>}
             ELSE articles'[id].fetch_status = "none"
       /\ \A e \in BagToSet(events') :
             (e.name = "article/parse" /\ e.data.articleId \in DOMAIN articles')
             => articles'[e.data.articleId].fetch_status = "scheduled"
       /\ \A i \in DOMAIN runs' :
             (/\ runs'[i].fn = "parse-article"
              /\ runs'[i].data.articleId \in DOMAIN articles')
             => /\ InFlight(runs'[i])
                   => articles'[runs'[i].data.articleId].fetch_status = "scheduled"
                /\ (/\ i \in DOMAIN runs
                    /\ InFlight(runs[i])
                    /\ runs'[i].status = "failed")
                   => articles'[runs'[i].data.articleId].fetch_status = "failed"
      ]_vars

\* C21: an add-feed run whose "check-existing-feed" found a feed for the URL leaves
\* the feeds and the queued events as they are at every one of its steps, records no
\* step but "mark-pending-completed" and "notify-feed-exists" (so it fetches nothing),
\* is never put to sleep, and when it returns the requester has exactly one
\* subscription to the feed found and has been pushed feed.added with its id; no user
\* ever has two subscriptions to one feed.
KnownUrlOnlySubscribes ==
    [][/\ \A i \in DOMAIN runs :
             (/\ runs[i].fn = "add-feed"
              /\ InFlight(runs[i])
              /\ runs'[i] # runs[i]
              /\ \/ Has(runs[i].memo, "check-existing-feed")
                    /\ runs[i].memo["check-existing-feed"] # 0
                 \/ ~Has(runs[i].memo, "check-existing-feed")
                    /\ InFlight(runs'[i])
                    /\ Has(runs'[i].memo, "check-existing-feed")
                    /\ runs'[i].memo["check-existing-feed"] # 0)
             => LET d == runs[i].data
                    feedId == IF InFlight(runs'[i]) THEN runs'[i].memo["check-existing-feed"]
                              ELSE runs[i].memo["check-existing-feed"]
                IN  /\ feeds' = feeds
                    /\ events' = events
                    /\ articles' = articles
                    /\ feedId \in DOMAIN feeds /\ feeds[feedId].url = d.feedUrl
                    /\ runs'[i].status \in {"running", "completed"}
                    /\ runs'[i].status = "running"
                       => /\ DOMAIN runs'[i].memo \subseteq
                                {"check-existing-feed", "mark-pending-completed",
                                 "notify-feed-exists"}
                          /\ runs'[i].retries = 0
                    /\ runs'[i].status = "completed"
                       => /\ Cardinality({k \in DOMAIN subscriptions' :
                                            /\ subscriptions'[k].user_id = d.requestedBy
                                            /\ subscriptions'[k].feed_id = feedId}) = 1
                          /\ CopiesIn(Push(d.requestedBy, "feed.added", feedId, d.feedUrl,
                                           d.pendingId, {}), notifications') = 1
                          /\ d.pendingId \notin DOMAIN pending_feeds'
       /\ \A j, k \in DOMAIN subscriptions' :
             (/\ subscriptions'[j].user_id = subscriptions'[k].user_id
              /\ subscriptions'[j].feed_id = subscriptions'[k].feed_id) => j = k
      ]_vars

\* the same user has asked twice for the URL of a feed they are subscribed to, both
\* runs have returned, and the user holds one subscription to the feed and two
\* feed.added pushes with its id
KnownUrlRequestedTwice ==
    /\ Len(runs) = 2
    /\ \A i \in DOMAIN runs :
          /\ runs[i].fn = "add-feed" /\ runs[i].status = "completed"
          /\ runs[i].data.feedUrl = "f" /\ runs[i].data.requestedBy = "u1"
    /\ Cardinality({k \in DOMAIN subscriptions :
                      subscriptions[k].user_id = "u1" /\ subscriptions[k].feed_id = 1}) = 1
    /\ \A i \in DOMAIN runs :
          BagIn(Push("u1", "feed.added", 1, "f", runs[i].data.pendingId, {}), notifications)
    /\ Len(feeds) = 2

\* C22: an add-feed run whose fetched body parsed as a feed sends an event only at the
\* step "trigger-feed-parse", which sends exactly one feed/parse.requested for the id
\* recorded by "create-feed-from-rss" when it succeeds and none when it fails, and
\* keeps every step result it has recorded across its re-invocations; when the run
\* returns, the three steps are recorded, the feed row of that id has the URL asked
\* for, the requester is subscribed to it and feed.added was pushed once with the id.
ParsedBodyCreatesAndTriggersOnce ==
    [][\A i \in DOMAIN runs :
          (/\ runs[i].fn = "add-feed"
           /\ InFlight(runs[i])
           /\ runs'[i] # runs[i]
           /\ Has(runs[i].memo, "validate-rss")
           /\ runs[i].memo["validate-rss"].isValid)
          => LET d == runs[i].data
                 m == runs[i].memo
                 trigger == Event("feed/parse.requested",
                                  [feedId |-> m["create-feed-from-rss"]])
                 recorded == /\ ~Has(m, "trigger-feed-parse")
                             /\ InFlight(runs'[i])
                             /\ Has(runs'[i].memo, "trigger-feed-parse")
             IN  /\ InFlight(runs'[i])
                    => \A step \in DOMAIN m : /\ Has(runs'[i].memo, step)
                                              /\ runs'[i].memo[step] = m[step]
                 /\ recorded => events' = Send(events, trigger)
                 /\ ~recorded => events' = events
                 /\ runs'[i].status = "completed"
                    => /\ {"create-feed-from-rss", "notify-feed-created",
                           "trigger-feed-parse"} \subseteq DOMAIN m
                       /\ LET feedId == m["create-feed-from-rss"]
                          IN  /\ feedId \in DOMAIN feeds'
                              /\ feeds'[feedId].url = d.feedUrl
                              /\ \E k \in DOMAIN subscriptions' :
                                    /\ subscriptions'[k].user_id = d.requestedBy
                                    /\ subscriptions'[k].feed_id = feedId
                              /\ CopiesIn(Push(d.requestedBy, "feed.added", feedId, d.feedUrl,
                                               d.pendingId, {}), notifications') = 1
      ]_vars

\* a run that failed once and was re-invoked has now recorded all three steps: one
\* trigger for the new feed is queued and one feed.added was pushed
TriggeredOnceAfterRetry ==
    \E i \in DOMAIN runs :
       /\ runs[i].fn = "add-feed" /\ runs[i].status = "running"
       /\ runs[i].invocations = 2
       /\ Has(runs[i].memo, "fetch-url") /\ runs[i].retries = 1
       /\ Has(runs[i].memo, "trigger-feed-parse")
       /\ Has(runs[i].memo, "validate-rss") /\ runs[i].memo["validate-rss"].isValid
       /\ LET feedId == runs[i].memo["create-feed-from-rss"]
          IN  /\ feeds[feedId].url = runs[i].data.feedUrl
              /\ CopiesIn(Event("feed/parse.requested", [feedId |-> feedId]), events) = 1
              /\ CopiesIn(Push(runs[i].data.requestedBy, "feed.added", feedId,
                               runs[i].data.feedUrl, runs[i].data.pendingId, {}),
                          notifications) = 1

\* C23: an add-feed run whose discovery found no candidate, or whose candidates have
\* all been tried and none is a feed, records the step that marks the request failed
\* before the step that pushes feed.add.failed, and both before it aborts; the mark
\* leaves the request's row, if it is still there, with status "failed"; the push is
\* one feed.add.failed to the requester; the abort ends the run as failed with a
\* NonRetriableError, the run is never put to sleep, and a failed run never changes
\* again.  No step of such a run changes feeds, subscriptions or the queued events,
\* and the run has recorded no step that creates a feed or a subscription.
NoFeedFoundFailsForGood ==
    [][\A i \in DOMAIN runs :
          /\ (runs[i].fn = "add-feed" /\ runs[i].status = "failed") => runs'[i] = runs[i]
          /\ (/\ runs[i].fn = "add-feed"
              /\ InFlight(runs[i])
              /\ runs'[i] # runs[i]
              /\ Has(runs[i].memo, "discover-rss-feeds")
              /\ \A u \in runs[i].memo["discover-rss-feeds"] : Has(runs[i].memo, ValidateStep(u))
              /\ ValidatedFeeds(runs[i].memo) = {})
             => LET d == runs[i].data
                    m == runs[i].memo
                    none == m["discover-rss-feeds"] = {}
                    mark == IF none THEN "mark-failed-no-feeds" ELSE "mark-failed-invalid-feeds"
                    notify == IF none THEN "notify-failed" ELSE "notify-failed-invalid"
                    marked == d.pendingId \in DOMAIN pending_feeds'
                              => pending_feeds'[d.pendingId].status = "failed"
                IN  /\ feeds' = feeds /\ subscriptions' = subscriptions /\ events' = events
                    /\ DOMAIN m \subseteq
                          {"check-existing-feed", "fetch-url", "validate-rss",
                           "discover-rss-feeds", "mark-failed-no-feeds", "notify-failed",
                           "mark-failed-invalid-feeds", "notify-failed-invalid"}
                          \cup {ValidateStep(u) : u \in Urls}
                    /\ runs'[i].status \in {"running", "failed"}
                    /\ runs'[i].status = "running"
                       => \/ /\ ~Has(m, mark)
                             /\ DOMAIN runs'[i].memo = DOMAIN m \cup {mark}
                             /\ marked
                             /\ notifications' = notifications
                          \/ /\ Has(m, mark) /\ ~Has(m, notify)
                             /\ DOMAIN runs'[i].memo = DOMAIN m \cup {notify}
                             /\ pending_feeds' = pending_feeds
                             /\ notifications' = NotifyUser(notifications,
                                   Push(d.requestedBy, "feed.add.failed", 0, d.feedUrl,
                                        d.pendingId, {}))
                    /\ runs'[i].status = "failed"
                       => /\ Has(m, mark) /\ Has(m, notify)
                          /\ runs'[i].error = "NonRetriableError"
                          /\ runs[i].retries = runs[i].invocations - 1
                          /\ pending_feeds' = pending_feeds
                          /\ notifications' = notifications
      ]_vars

\* a run has aborted after its candidates were tried and none was a feed: the request
\* is failed with that message, the requester was pushed feed.add.failed, and there
\* is no feed and no subscription
AbortedWithNoValidFeed ==
    \E i \in DOMAIN runs :
       /\ runs[i].fn = "add-feed" /\ runs[i].status = "failed"
       /\ runs[i].error = "NonRetriableError"
       /\ runs[i].data.pendingId \in DOMAIN pending_feeds
       /\ pending_feeds[runs[i].data.pendingId].status = "failed"
       /\ pending_feeds[runs[i].data.pendingId].error_message = "none were valid feeds"
       /\ BagIn(Push(runs[i].data.requestedBy, "feed.add.failed", 0, runs[i].data.feedUrl,
                     runs[i].data.pendingId, {}), notifications)
       /\ feeds = <<>> /\ subscriptions = <<>>

\* C24: the step "query-active-feeds" of a sweep returns the ids of the feeds that
\* are active and either were never fetched or were last fetched at least their ttl
\* (60 minutes when they have none) before the time of the query, and of no other
\* feed; the step "schedule-parse-feed" sends one feed/parse.requested for each of
\* these ids and for no other; no other step of a sweep sends an event, and no step
\* of a sweep changes a feed, an article or any other row.
SweepTriggersDueFeeds ==
    [][\A i \in DOMAIN runs :
          (/\ runs[i].fn = "schedule-feed-updates"
           /\ InFlight(runs[i])
           /\ runs'[i] # runs[i])
          => LET m == runs[i].memo
                 queried == /\ ~Has(m, "query-active-feeds")
                            /\ InFlight(runs'[i])
                            /\ Has(runs'[i].memo, "query-active-feeds")
                 sent == /\ ~Has(m, "schedule-parse-feed")
                         /\ InFlight(runs'[i])
                         /\ Has(runs'[i].memo, "schedule-parse-feed")
                 now == runs'[i].clock
                 elapsed(id) == LET ttl == IF feeds[id].ttl = <<>> THEN 60
                                           ELSE feeds[id].ttl[1]
                                IN  now - feeds[id].last_fetched_at >= ttl
             IN  /\ store' = store
                 /\ InFlight(runs'[i])
                    => \A step \in DOMAIN m : /\ Has(runs'[i].memo, step)
                                              /\ runs'[i].memo[step] = m[step]
                 /\ queried
                    => \A id \in DOMAIN feeds :
                          id \in runs'[i].memo["query-active-feeds"]
                          <=> /\ feeds[id].is_active
                              /\ feeds[id].last_fetched_at = 0 \/ elapsed(id)
                 /\ sent
                    => \A id \in 1..(Len(feeds) + 1) :
                          CopiesIn(Event("feed/parse.requested", [feedId |-> id]), events')
                          = CopiesIn(Event("feed/parse.requested", [feedId |-> id]), events)
                            + (IF id \in m["query-active-feeds"] THEN 1 ELSE 0)
                 /\ ~sent => events' = events
                 /\ runs'[i].status = "completed" => Has(m, "schedule-parse-feed")
      ]_vars

\* a sweep at minute 130 over two active feeds last fetched at minute 100, the first
\* with a ttl of 30 minutes and the second with none, has sent its events: one
\* trigger for the first feed and none for the second
SweptOneOfTwo ==
    \E i \in DOMAIN runs :
       /\ runs[i].fn = "schedule-feed-updates" /\ runs[i].status = "running"
       /\ Has(runs[i].memo, "schedule-parse-feed")
       /\ runs[i].clock = 130
       /\ feeds[1].is_active /\ feeds[1].ttl = <<30>> /\ feeds[1].last_fetched_at = 100
       /\ feeds[2].is_active /\ feeds[2].ttl = <<>> /\ feeds[2].last_fetched_at = 100
       /\ CopiesIn(Event("feed/parse.requested", [feedId |-> 1]), events) = 1
       /\ CopiesIn(Event("feed/parse.requested", [feedId |-> 2]), events) = 0

\* C25: the slug that "update-feed-metadata" stores is the first of the candidates
\* base, base-1, base-2, ... (a candidate with a suffix being the base cut to 100
\* characters less the length of the suffix, then the suffix) that no row of feeds
\* holds: no row held it, and every candidate before it was held by a row.
SlugIsFirstFreeCandidate ==
    [][\A i \in DOMAIN runs :
          (/\ runs[i].fn = "parse-feed"
           /\ InFlight(runs[i]) /\ InFlight(runs'[i])
           /\ ~Has(runs[i].memo, "update-feed-metadata")
           /\ Has(runs'[i].memo, "update-feed-metadata"))
          => LET m == runs[i].memo
                 base == FeedBaseSlug(m["parse-rss-xml"].title, m["validate-feed"].url)
                 new == feeds'[runs[i].data.feedId].slug
                 candidate(n) ==
                    IF n = 0 THEN base
                    ELSE LET suffix == <<"-">> \o Decimal(n)
                         IN  SubSeq(base, 1, IF Len(base) <= 100 - Len(suffix) THEN Len(base)
                                             ELSE 100 - Len(suffix)) \o suffix
                 held(slug) == \E id \in DOMAIN feeds : feeds[id].slug = slug
             IN  /\ ~held(new)
                 /\ \E n \in 0..(Len(feeds) + 1) :
                       /\ new = candidate(n)
                       /\ \A k \in 0..(n - 1) : held(candidate(k))
      ]_vars

\* a feed titled "Hacker News" was refreshed while other feeds held hacker-news and
\* hacker-news-2: it was given hacker-news-1
GapInSuffixesReused ==
    /\ feeds # <<>>
    /\ feeds[1].slug = <<"h", "a", "c", "k", "e", "r", "-", "n", "e", "w", "s", "-", "1">>
    /\ feeds[1].title = "Hacker News"
    /\ \E id \in DOMAIN feeds :
          feeds[id].slug = <<"h", "a", "c", "k", "e", "r", "-", "n", "e", "w", "s">>
    /\ \E id \in DOMAIN feeds :
          feeds[id].slug = <<"h", "a", "c", "k", "e", "r", "-", "n", "e", "w", "s", "-", "2">>
    /\ \E i \in DOMAIN runs : Has(runs[i].memo, "update-feed-metadata")

\* C26: the slug that "update-feed-metadata" stores, and the slug of every row that
\* "insert-articles" inserts, has between 1 and 100 characters; a slug that is not
\* the base itself is, for some n, the first 100 - k characters of the base (all of
\* them when the base is shorter) followed by "-n", k being the length of "-n".
SlugFitsWithItsSuffix ==
    [][\A i \in DOMAIN runs :
          (/\ runs[i].fn = "parse-feed"
           /\ InFlight(runs[i]) /\ InFlight(runs'[i]))
          => LET m == runs[i].memo
                 doc == m["parse-rss-xml"]
                 fits(slug, base) ==
                    /\ Len(slug) >= 1 /\ Len(slug) <= 100
                    /\ Len(base) >= 1 /\ Len(base) <= 100
                    /\ \/ slug = base
                       \/ \E n \in 1..64 :
                             LET suffix == <<"-">> \o Decimal(n)
                                 kept == IF Len(base) > 100 - Len(suffix)
                                         THEN 100 - Len(suffix) ELSE Len(base)
                             IN  /\ Len(slug) = kept + Len(suffix)
                                 /\ SubSeq(slug, 1, kept) = SubSeq(base, 1, kept)
                                 /\ SubSeq(slug, kept + 1, Len(slug)) = suffix
             IN  /\ (~Has(m, "update-feed-metadata")
                     /\ Has(runs'[i].memo, "update-feed-metadata"))
                    => fits(feeds'[runs[i].data.feedId].slug,
                            FeedBaseSlug(doc.title, m["validate-feed"].url))
                 /\ (~Has(m, "insert-articles") /\ Has(runs'[i].memo, "insert-articles"))
                    => \A id \in DOMAIN articles' \ DOMAIN articles :
                          \E k \in DOMAIN doc.items :
                             fits(articles'[id].slug,
                                  ArticleBaseSlug(IF doc.items[k].title # null
                                                  THEN doc.items[k].title ELSE "Untitled",
                                                  doc.items[k].link))
      ]_vars

\* a feed whose title gives a base of 100 characters was refreshed while another
\* feed held that base: its slug is the first 98 characters of the base and "-1";
\* and the two articles inserted for it have slugs of at most 100 characters
HundredCharacterBaseCollided ==
    /\ feeds # <<>>
    /\ feeds[1].title = "a x 100"
    /\ feeds[1].slug = [k \in 1..98 |-> "a"] \o <<"-", "1">>
    /\ \E id \in DOMAIN feeds : feeds[id].slug = [k \in 1..100 |-> "a"]
    /\ \E i \in DOMAIN runs :
          /\ Has(runs[i].memo, "insert-articles")
          /\ Cardinality(runs[i].memo["insert-articles"]) = 2
          /\ \A id \in runs[i].memo["insert-articles"] :
                Len(articles[id].slug) \in 1..100

\* C27: the step "insert-articles" of a refresh records the ids of the rows it
\* inserted: they are the rows added to articles, all of the feed, one for each
\* distinct key among the entries that no article of the feed had, so the feed's
\* article count grows by their number; a refresh that returns "success" returns
\* totalItems, the number of entries of the parsed document, and newArticles, the
\* number of ids recorded, which is at most totalItems.
CountsAreOfRowsInserted ==
    [][\A i \in DOMAIN runs :
          (runs[i].fn = "parse-feed" /\ InFlight(runs[i]) /\ runs'[i] # runs[i])
          => LET m == runs[i].memo
                 feedId == runs[i].data.feedId
                 ofFeed(arts) == {id \in DOMAIN arts : arts[id].feed_id = feedId}
                 key(item) == IF item.guid # null THEN item.guid
                              ELSE IF item.link # null THEN item.link
                              ELSE IF item.title # null THEN item.title ELSE "unknown"
             IN  /\ (/\ InFlight(runs'[i])
                     /\ ~Has(m, "insert-articles")
                     /\ Has(runs'[i].memo, "insert-articles"))
                    => LET ids == runs'[i].memo["insert-articles"]
                           items == m["parse-rss-xml"].items
                           absent == {key(items[k]) : k \in DOMAIN items}
                                     \ {articles[id].guid : id \in ofFeed(articles)}
                       IN  /\ ids = DOMAIN articles' \ DOMAIN articles
                           /\ \A id \in DOMAIN articles : articles'[id] = articles[id]
                           /\ \A id \in ids : articles'[id].feed_id = feedId
                           /\ Cardinality(ofFeed(articles'))
                              = Cardinality(ofFeed(articles)) + Cardinality(ids)
                           /\ Cardinality(ids) = Cardinality(absent)
                           /\ {articles'[id].guid : id \in ids} = absent
                 /\ (InFlight(runs'[i]) /\ Has(m, "insert-articles"))
                    => runs'[i].memo["insert-articles"] = m["insert-articles"]
                 /\ (runs'[i].status = "completed" /\ runs'[i].result = "success")
                    => /\ runs'[i].totalItems = Len(m["parse-rss-xml"].items)
                       /\ runs'[i].newArticles = Cardinality(m["insert-articles"])
                       /\ runs'[i].newArticles <= runs'[i].totalItems
      ]_vars

\* a refresh of the first feed, which had one article, has returned "success" for a
\* document of two entries of which one was new
OneOfTwoEntriesWasNew ==
    \E i \in DOMAIN runs :
       /\ runs[i].fn = "parse-feed" /\ runs[i].status = "completed"
       /\ runs[i].data.feedId = 1
       /\ runs[i].result = "success"
       /\ runs[i].totalItems = 2 /\ runs[i].newArticles = 1
       /\ Cardinality({id \in DOMAIN articles : articles[id].feed_id = 1}) = 2

\* C28: no two rows of feeds have the same URL; a row of feeds keeps its id and its
\* URL, and is never deleted; and a step of add-feed that creates the feed of a URL
\* (directly or after discovery) records the id of the row of that URL and leaves
\* its requester subscribed to it, without adding a row when the URL already had
\* one.
OneFeedPerUrl ==
    [][/\ \A a, b \in DOMAIN feeds' : feeds'[a].url = feeds'[b].url => a = b
       /\ \A id \in DOMAIN feeds : id \in DOMAIN feeds' /\ feeds'[id].url = feeds[id].url
       /\ \A i \in DOMAIN runs :
             (/\ runs[i].fn = "add-feed"
              /\ InFlight(runs[i]) /\ InFlight(runs'[i]))
             => \A step \in {"create-feed-from-rss", "create-discovered-feed"} :
                   (~Has(runs[i].memo, step) /\ Has(runs'[i].memo, step))
                   => LET url == IF step = "create-feed-from-rss" THEN runs[i].data.feedUrl
                                 ELSE CHOOSE u \in Urls :
                                         /\ Has(runs[i].memo, ValidateStep(u))
                                         /\ runs[i].memo[ValidateStep(u)] = u
                          feedId == runs'[i].memo[step]
                          known == {id \in DOMAIN feeds : feeds[id].url = url}
                      IN  /\ feedId \in DOMAIN feeds' /\ feeds'[feedId].url = url
                          /\ known # {} => feeds' = feeds /\ feedId \in known
                          /\ known = {} => Len(feeds') = Len(feeds) + 1
                          /\ \E k \in DOMAIN subscriptions' :
                                /\ subscriptions'[k].user_id = runs[i].data.requestedBy
                                /\ subscriptions'[k].feed_id = feedId
      ]_vars

\* two users asked for the same new URL and both runs found no feed for it: both
\* have created it, there is one row, and both users are subscribed to it
BothCreatedOneFeed ==
    /\ Len(runs) = 2
    /\ \A i \in DOMAIN runs :
          /\ runs[i].fn = "add-feed" /\ InFlight(runs[i])
          /\ runs[i].data.feedUrl = "p"
          /\ Has(runs[i].memo, "create-feed-from-rss")
          /\ runs[i].memo["create-feed-from-rss"] = 1
    /\ Len(feeds) = 1 /\ feeds[1].url = "p"
    /\ \A user \in Users :
          \E k \in DOMAIN subscriptions :
             subscriptions[k].user_id = user /\ subscriptions[k].feed_id = 1

\* C29: a refresh of a feed that was refreshed before leaves the feed's slug as it
\* was, when the title it parsed is the title the feed has and no other feed holds
\* the base slug of that title.
RefreshKeepsSlug ==
    [][\A i \in DOMAIN runs :
          (/\ runs[i].fn = "parse-feed"
           /\ InFlight(runs[i]) /\ InFlight(runs'[i])
           /\ ~Has(runs[i].memo, "update-feed-metadata")
           /\ Has(runs'[i].memo, "update-feed-metadata"))
          => LET id == runs[i].data.feedId
                 title == runs[i].memo["parse-rss-xml"].title
                 baseSlug == FeedBaseSlug(title, feeds[id].url)
             IN  (/\ feeds[id].last_success_at = 1
                  /\ feeds[id].title = title
                  /\ \A other \in DOMAIN feeds : other # id => feeds[other].slug # baseSlug)
                 => feeds'[id].slug = feeds[id].slug
      ]_vars

\* C30: a connection leaves the registry only when its own stream closes, when a push
\* to its own stream rejects, or when a newer connection of its user is registered:
\* nothing that happens to an older stream of the user removes it.
OlderStreamNeverUnregistersNewer ==
    [][\A c \in connections :
          c \notin connections'
          => \/ ~streams[c.stream].closed /\ streams'[c.stream].closed
             \/ hubCall'.n # hubCall.n /\ c.stream \in hubCall'.rejected
             \/ /\ Len(streams') = Len(streams) + 1
                /\ streams'[Len(streams')].userId = c.userId
      ]_vars

NotModifiedOnlyTouchesLastFetched ==
    [][\A i \in DOMAIN runs :
          (/\ runs[i].fn = "parse-feed" /\ InFlight(runs[i])
           /\ Has(runs[i].memo, "fetch-rss-feed")
           /\ runs[i].memo["fetch-rss-feed"].status = 304
           /\ runs'[i] # runs[i])
          => LET id == runs[i].data.feedId
             IN  /\ feeds' = [feeds EXCEPT ![id].last_fetched_at = feeds'[id].last_fetched_at]
                 /\ (InFlight(runs'[i]) /\ Has(runs'[i].memo, "update-last-fetched"))
                       => feeds'[id].last_fetched_at = 1
                 /\ articles' = articles
                 /\ subscriptions' = subscriptions
                 /\ events' = events
                 /\ notifications' = notifications
      ]_vars

\* a refresh of a feed that has articles and subscribers was answered 304 and has run
\* "update-last-fetched"
NotModifiedRecorded ==
    \E i \in DOMAIN runs :
       /\ runs[i].fn = "parse-feed" /\ runs[i].status = "running"
       /\ Has(runs[i].memo, "fetch-rss-feed")
       /\ runs[i].memo["fetch-rss-feed"].status = 304
       /\ Has(runs[i].memo, "update-last-fetched")
       /\ \E a \in DOMAIN articles : articles[a].feed_id = runs[i].data.feedId
       /\ \E k \in DOMAIN subscriptions : subscriptions[k].feed_id = runs[i].data.feedId

\* C33: the key of an entry is its guid if it has one, or else its link, or else its
\* title, or else 'unknown'; after "insert-articles" the feed has one article per
\* key, so two entries of a document are one article exactly when their keys are
\* equal: when their first fields present have the same value, when both have none,
\* or when one has none and the first field present of the other is 'unknown'.
EntriesAreKeyedByFirstPresentField ==
    \A i \in DOMAIN runs :
       (runs[i].fn = "parse-feed" /\ InFlight(runs[i]) /\ Has(runs[i].memo, "insert-articles"))
       => LET items == runs[i].memo["parse-rss-xml"].items
              rows == {a \in DOMAIN articles : articles[a].feed_id = runs[i].data.feedId}
              first(e) == IF e.guid # null THEN <<e.guid>>
                          ELSE IF e.link # null THEN <<e.link>>
                          ELSE IF e.title # null THEN <<e.title>>
                          ELSE <<>>
              key(e) == IF first(e) = <<>> THEN "unknown" ELSE first(e)[1]
              keys == {key(items[k]) : k \in DOMAIN items}
          IN  /\ {articles[a].guid : a \in rows} = keys
              /\ Cardinality(rows) = Cardinality(keys)

\* the first entry has no guid and the link 'l1', the second has the guid 'l1' and
\* another link: they are one article, of key 'l1'
LinkMatchedGuid ==
    \E i \in DOMAIN runs :
       /\ runs[i].fn = "parse-feed" /\ InFlight(runs[i])
       /\ Has(runs[i].memo, "insert-articles")
       /\ LET items == runs[i].memo["parse-rss-xml"].items
          IN  /\ items[1].guid = null /\ items[1].link = "l1"
              /\ items[2].guid = "l1" /\ items[2].link = "l2"
       /\ Len(articles) = 1 /\ articles[1].guid = "l1"

\* C33 as stated: two entries of a document are one article exactly when their first
\* fields present have the same value, or when both have none.
DeduplicatedExactlyOnFirstPresentField ==
    \A i \in DOMAIN runs :
       (runs[i].fn = "parse-feed" /\ InFlight(runs[i]) /\ Has(runs[i].memo, "insert-articles"))
       => LET items == runs[i].memo["parse-rss-xml"].items
              rows == {a \in DOMAIN articles : articles[a].feed_id = runs[i].data.feedId}
              first(e) == IF e.guid # null THEN <<e.guid>>
                          ELSE IF e.link # null THEN <<e.link>>
                          ELSE IF e.title # null THEN <<e.title>>
                          ELSE <<>>
          IN  Cardinality(rows) = Cardinality({first(items[k]) : k \in DOMAIN items})

\* C34: no two articles of a feed have the same slug.
ArticleSlugsAreUniqueInFeed ==
    \A a, b \in DOMAIN articles :
       (articles[a].feed_id = articles[b].feed_id /\ articles[a].slug = articles[b].slug)
          => a = b

\* "insert-articles" has inserted two entries that have the same title, or no title,
\* into a feed where the slug of the title was taken: the feed has three articles of
\* that title or more
SameTitleInsertedTwice ==
    \E i \in DOMAIN runs :
       /\ runs[i].fn = "parse-feed" /\ InFlight(runs[i])
       /\ Has(runs[i].memo, "insert-articles")
       /\ Cardinality(runs[i].memo["insert-articles"]) = 2
       /\ \A a, b \in runs[i].memo["insert-articles"] : articles[a].title = articles[b].title
       /\ \E c \in DOMAIN articles :
             /\ c \notin runs[i].memo["insert-articles"]
             /\ articles[c].feed_id = runs[i].data.feedId

\* C35: the steps "validate-feed", "fetch-rss-feed" and "parse-rss-xml" of a refresh,
\* whether they fail or not and at every attempt, write nothing: the feeds, the
\* articles and the rest of the store are as they were, no event is sent and no
\* notification is pushed; so a run that fails at one of them has left no trace.
FailedRefreshWritesNothing ==
    [][\A i \in DOMAIN runs :
          (/\ runs[i].fn = "parse-feed" /\ InFlight(runs[i])
           /\ ParseFeedAt(runs[i].memo) \subseteq {"validate-feed", "fetch-rss-feed", "parse-rss-xml"}
           /\ runs'[i] # runs[i])
          => /\ feeds' = feeds /\ articles' = articles /\ subscriptions' = subscriptions
             /\ pending_feeds' = pending_feeds
             /\ events' = events
             /\ notifications' = notifications
      ]_vars

\* a refresh has failed at "parse-rss-xml" three times and waits for its last
\* re-invocation
RefreshFailedAtParse ==
    \E i \in DOMAIN runs :
       /\ runs[i].fn = "parse-feed" /\ runs[i].status = "sleeping"
       /\ runs[i].failedStep = "parse-rss-xml"
       /\ runs[i].retries = 3

\* C36: wherever a store-writing step of add-feed is about to execute, executing it
\* after any number of its statements were already executed and the step failed
\* leaves the store that executing it once leaves; and when the step's result is
\* recorded, interrupted before or not, the URL has one feed row, whose id is the id
\* the step returns, the requester has one subscription to it, and the pending
\* request is deleted.
ReexecutedStepLeavesTheSameStore ==
    [][\A i \in DOMAIN runs :
          (runs[i].fn = "add-feed" /\ runs[i].status = "running")
          => /\ AtAddFeed(i, "mark-pending-completed")
                => LET feedId == runs[i].memo["check-existing-feed"]
                       user == runs[i].data.requestedBy
                       pendingId == runs[i].data.pendingId
                       once == MarkCompletedStatements(StoreOf, feedId, user, pendingId, 2)
                   IN  \A k \in 0..2 :
                          MarkCompletedStatements(
                             MarkCompletedStatements(StoreOf, feedId, user, pendingId, k),
                             feedId, user, pendingId, 2) = once
             /\ \A step \in {"create-feed-from-rss", "create-discovered-feed"} :
                   AtAddFeed(i, step)
                   => LET row == CreatedRow(runs[i], step)
                          user == runs[i].data.requestedBy
                          pendingId == runs[i].data.pendingId
                          once == CreateFeedStatements(StoreOf, row, user, pendingId, 3)
                      IN  \A k \in 0..3 :
                             CreateFeedStatements(
                                CreateFeedStatements(StoreOf, row, user, pendingId, k),
                                row, user, pendingId, 3) = once
             /\ \A step \in {"mark-pending-completed", "create-feed-from-rss",
                             "create-discovered-feed"} :
                   (/\ AtAddFeed(i, step)
                    /\ InFlight(runs'[i]) /\ Has(runs'[i].memo, step))
                   => LET url == IF step = "create-discovered-feed"
                                 THEN DiscoveredUrl(runs[i].memo) ELSE runs[i].data.feedUrl
                          feedId == IF step = "mark-pending-completed"
                                    THEN runs[i].memo["check-existing-feed"]
                                    ELSE runs'[i].memo[step]
                      IN  /\ {id \in DOMAIN feeds' : feeds'[id].url = url} = {feedId}
                          /\ (step \in runs[i].interrupted /\ FeedIdByUrl(feeds, url) # 0)
                                => feedId = FeedIdByUrl(feeds, url)
                          /\ Cardinality({n \in DOMAIN subscriptions' :
                                /\ subscriptions'[n].user_id = runs[i].data.requestedBy
                                /\ subscriptions'[n].feed_id = feedId}) = 1
                          /\ runs[i].data.pendingId \notin DOMAIN pending_feeds'
      ]_vars

\* "create-feed-from-rss" failed part-way, the run was re-invoked and the step was
\* executed again: its result is recorded, and there is one feed, one subscription
\* and no pending request of the run
CreatedAgainAfterInterruption ==
    \E i \in DOMAIN runs :
       /\ runs[i].fn = "add-feed" /\ runs[i].status = "running"
       /\ "create-feed-from-rss" \in runs[i].interrupted
       /\ Has(runs[i].memo, "create-feed-from-rss")
       /\ ~Has(runs[i].memo, "notify-feed-created")
       /\ Len(feeds) = 1 /\ Len(subscriptions) = 1
       /\ runs[i].data.pendingId \notin DOMAIN pending_feeds

====
